---- MODULE Spec2Model ----
(***************************************************************************)
(* TalentScout hiring assistant: the conversation engine                   *)
(* (src/conversation.py), the candidate profile (src/models.py), the text  *)
(* utilities (src/utils.py) and the model-client facade                    *)
(* (src/llm_client.py).                                                    *)
(*                                                                         *)
(* A text is a sequence of tokens.  A token of a user text is one          *)
(* character; a token of a text written by the language model is a chunk   *)
(* of non-whitespace characters or one whitespace character.  A reply of   *)
(* the language model is a record [body, block]: the conversational text   *)
(* and a description of the JSON block that follows it.                    *)
(***************************************************************************)
EXTENDS Integers, Sequences, FiniteSets, TLC

\* ------------------------------------------------------------------ bounds

\* Engine operations stop being issued once the transcript holds this many
\* entries.
MaxMessages == 5

\* generate_greeting is called at most this many times on one engine.
MaxGreetings == 2

\* The most characters that follow the long run of a text given to sanitize_input.
MaxTail == 3

\* The most characters of a message given to check_exit_intent.
MaxTextLen == 4

\* The most parts a reply given to the JSON block functions is put together from.
MaxParts == 3

\* The most lines of a text given to parse_technical_questions, made of every
\* kind of line.
MaxLines == 3

\* The most lines of a text given to parse_technical_questions, made of
\* headers and questions: enough for two groups with a header without
\* questions between them.
MaxGroupLines == 5

\* ------------------------------------------------------ src/models.py enum

GREETING == "greeting"
GATHERING_INFO == "gathering_info"
TECH_QUESTIONS == "tech_questions"
ANSWERING_QUESTIONS == "answering_questions"
CLOSING == "closing"
ENDED == "ended"

ConversationState ==
    {GREETING, GATHERING_INFO, TECH_QUESTIONS, ANSWERING_QUESTIONS, CLOSING, ENDED}

\* Python's None, for an Optional[str]; no modelled text equals it.
None == "<None>"

\* ---------------------------------------------------------- src/config.py

CANDIDATE_FIELDS ==
    << "full_name", "email", "phone", "years_of_experience",
       "desired_positions", "current_location", "tech_stack" >>

FieldNames == { CANDIDATE_FIELDS[i] : i \in 1..Len(CANDIDATE_FIELDS) }

EXIT_KEYWORDS ==
    {
        <<"b", "y", "e">>,
        <<"g", "o", "o", "d", "b", "y", "e">>,
        <<"e", "x", "i", "t">>,
        <<"q", "u", "i", "t">>,
        <<"e", "n", "d">>,
        <<"s", "t", "o", "p">>,
        <<"t", "h", "a", "n", "k", "s", " ", "b", "y", "e">>,
        <<"t", "h", "a", "n", "k", " ", "y", "o", "u", " ", "b", "y", "e">>,
        <<"s", "e", "e", " ", "y", "o", "u">>,
        <<"l", "a", "t", "e", "r">>,
        <<"d", "o", "n", "e">>,
        <<"f", "i", "n", "i", "s", "h">>,
        <<"e", "n", "d", " ", "c", "o", "n", "v", "e", "r", "s", "a", "t", "i", "o", "n">>,
        <<"c", "l", "o", "s", "e">>,
        <<"n", "o", " ", "m", "o", "r", "e">>,
        <<"t", "h", "a", "t", "'", "s", " ", "a", "l", "l">>,
        <<"i", "'", "m", " ", "d", "o", "n", "e">>,
        <<"i", "m", " ", "d", "o", "n", "e">>
    }

\* ----------------------------------------------------------- src/utils.py

\* The characters str.strip() and the pattern \s treat as whitespace: those of
\* str.isspace().  A character that no string of this module can hold as
\* itself is written as its code point, "<U+000B>".
Whitespace ==
    { " ", "\t", "\n", "\r", "\f", "<U+000B>",
      "<U+001C>", "<U+001D>", "<U+001E>", "<U+001F>", "<U+0085>", "<U+00A0>",
      "<U+1680>", "<U+2000>", "<U+2001>", "<U+2002>", "<U+2003>", "<U+2004>",
      "<U+2005>", "<U+2006>", "<U+2007>", "<U+2008>", "<U+2009>", "<U+200A>",
      "<U+2028>", "<U+2029>", "<U+202F>", "<U+205F>", "<U+3000>" }

\* The tokens of the ASCII characters, code points 0 to 127: each character
\* stands for itself, and one that no string of this module can hold is written
\* as its code point.
AsciiTokens ==
    << "<U+0000>", "<U+0001>", "<U+0002>", "<U+0003>", "<U+0004>", "<U+0005>", "<U+0006>", "<U+0007>",
       "<U+0008>", "\t", "\n", "<U+000B>", "\f", "\r", "<U+000E>", "<U+000F>",
       "<U+0010>", "<U+0011>", "<U+0012>", "<U+0013>", "<U+0014>", "<U+0015>", "<U+0016>", "<U+0017>",
       "<U+0018>", "<U+0019>", "<U+001A>", "<U+001B>", "<U+001C>", "<U+001D>", "<U+001E>", "<U+001F>",
       " ", "!", "\"", "#", "$", "%", "&", "'",
       "(", ")", "*", "+", ",", "-", ".", "/",
       "0", "1", "2", "3", "4", "5", "6", "7",
       "8", "9", ":", ";", "<", "=", ">", "?",
       "@", "A", "B", "C", "D", "E", "F", "G",
       "H", "I", "J", "K", "L", "M", "N", "O",
       "P", "Q", "R", "S", "T", "U", "V", "W",
       "X", "Y", "Z", "[", "\\", "]", "^", "_",
       "<U+0060>", "a", "b", "c", "d", "e", "f", "g",
       "h", "i", "j", "k", "l", "m", "n", "o",
       "p", "q", "r", "s", "t", "u", "v", "w",
       "x", "y", "z", "{", "|", "}", "~", "<U+007F>" >>

\* The token of the character with code point n: the ASCII character itself,
\* else "<U+XXXX>" with four to six hexadecimal digits.
CodePointToken(n) ==
    IF n < 128 THEN AsciiTokens[n + 1]
    ELSE LET digit == << "0", "1", "2", "3", "4", "5", "6", "7",
                         "8", "9", "A", "B", "C", "D", "E", "F" >>
             hex(k) == digit[((n \div (16 ^ k)) % 16) + 1]
             low == hex(3) \o hex(2) \o hex(1) \o hex(0)
         IN  "<U+" \o (IF n >= 1048576 THEN hex(5) \o hex(4)
                       ELSE IF n >= 65536 THEN hex(4) ELSE "")
                   \o low \o ">"

\* The tokens of the code points of the runs << first, last >>.
TokensOf(runs) ==
    UNION { { CodePointToken(n) : n \in runs[k][1]..runs[k][2] } : k \in DOMAIN runs }

\* str.lower() on the characters it turns into one other character, as pairs
\* << character, lowered character >> (Unicode 15).  The runs are
\* << first, last, step, delta >>: every step-th code point from first to last
\* is lowered to the code point delta further on.
LowerPairs ==
    LET runs ==
    << << 65, 90, 1, 32 >>, << 192, 214, 1, 32 >>, << 216, 222, 1, 32 >>, << 256, 302, 2, 1 >>,
          << 306, 310, 2, 1 >>, << 313, 327, 2, 1 >>, << 330, 374, 2, 1 >>, << 376, 376, 1, -121 >>,
          << 377, 381, 2, 1 >>, << 385, 385, 1, 210 >>, << 386, 388, 2, 1 >>, << 390, 390, 1, 206 >>,
          << 391, 391, 1, 1 >>, << 393, 394, 1, 205 >>, << 395, 395, 1, 1 >>, << 398, 398, 1, 79 >>,
          << 399, 399, 1, 202 >>, << 400, 400, 1, 203 >>, << 401, 401, 1, 1 >>, << 403, 403, 1, 205 >>,
          << 404, 404, 1, 207 >>, << 406, 406, 1, 211 >>, << 407, 407, 1, 209 >>, << 408, 408, 1, 1 >>,
          << 412, 412, 1, 211 >>, << 413, 413, 1, 213 >>, << 415, 415, 1, 214 >>, << 416, 420, 2, 1 >>,
          << 422, 422, 1, 218 >>, << 423, 423, 1, 1 >>, << 425, 425, 1, 218 >>, << 428, 428, 1, 1 >>,
          << 430, 430, 1, 218 >>, << 431, 431, 1, 1 >>, << 433, 434, 1, 217 >>, << 435, 437, 2, 1 >>,
          << 439, 439, 1, 219 >>, << 440, 440, 1, 1 >>, << 444, 444, 1, 1 >>, << 452, 452, 1, 2 >>,
          << 453, 453, 1, 1 >>, << 455, 455, 1, 2 >>, << 456, 456, 1, 1 >>, << 458, 458, 1, 2 >>,
          << 459, 475, 2, 1 >>, << 478, 494, 2, 1 >>, << 497, 497, 1, 2 >>, << 498, 500, 2, 1 >>,
          << 502, 502, 1, -97 >>, << 503, 503, 1, -56 >>, << 504, 542, 2, 1 >>, << 544, 544, 1, -130 >>,
          << 546, 562, 2, 1 >>, << 570, 570, 1, 10795 >>, << 571, 571, 1, 1 >>, << 573, 573, 1, -163 >>,
          << 574, 574, 1, 10792 >>, << 577, 577, 1, 1 >>, << 579, 579, 1, -195 >>, << 580, 580, 1, 69 >>,
          << 581, 581, 1, 71 >>, << 582, 590, 2, 1 >>, << 880, 882, 2, 1 >>, << 886, 886, 1, 1 >>,
          << 895, 895, 1, 116 >>, << 902, 902, 1, 38 >>, << 904, 906, 1, 37 >>, << 908, 908, 1, 64 >>,
          << 910, 911, 1, 63 >>, << 913, 929, 1, 32 >>, << 931, 939, 1, 32 >>, << 975, 975, 1, 8 >>,
          << 984, 1006, 2, 1 >>, << 1012, 1012, 1, -60 >>, << 1015, 1015, 1, 1 >>, << 1017, 1017, 1, -7 >>,
          << 1018, 1018, 1, 1 >>, << 1021, 1023, 1, -130 >>, << 1024, 1039, 1, 80 >>, << 1040, 1071, 1, 32 >>,
          << 1120, 1152, 2, 1 >>, << 1162, 1214, 2, 1 >>, << 1216, 1216, 1, 15 >>, << 1217, 1229, 2, 1 >>,
          << 1232, 1326, 2, 1 >>, << 1329, 1366, 1, 48 >>, << 4256, 4293, 1, 7264 >>, << 4295, 4295, 1, 7264 >>,
          << 4301, 4301, 1, 7264 >>, << 5024, 5103, 1, 38864 >>, << 5104, 5109, 1, 8 >>, << 7312, 7354, 1, -3008 >>,
          << 7357, 7359, 1, -3008 >>, << 7680, 7828, 2, 1 >>, << 7838, 7838, 1, -7615 >>, << 7840, 7934, 2, 1 >>,
          << 7944, 7951, 1, -8 >>, << 7960, 7965, 1, -8 >>, << 7976, 7983, 1, -8 >>, << 7992, 7999, 1, -8 >>,
          << 8008, 8013, 1, -8 >>, << 8025, 8031, 2, -8 >>, << 8040, 8047, 1, -8 >>, << 8072, 8079, 1, -8 >>,
          << 8088, 8095, 1, -8 >>, << 8104, 8111, 1, -8 >>, << 8120, 8121, 1, -8 >>, << 8122, 8123, 1, -74 >>,
          << 8124, 8124, 1, -9 >>, << 8136, 8139, 1, -86 >>, << 8140, 8140, 1, -9 >>, << 8152, 8153, 1, -8 >>,
          << 8154, 8155, 1, -100 >>, << 8168, 8169, 1, -8 >>, << 8170, 8171, 1, -112 >>, << 8172, 8172, 1, -7 >>,
          << 8184, 8185, 1, -128 >>, << 8186, 8187, 1, -126 >>, << 8188, 8188, 1, -9 >>, << 8486, 8486, 1, -7517 >>,
          << 8490, 8490, 1, -8383 >>, << 8491, 8491, 1, -8262 >>, << 8498, 8498, 1, 28 >>, << 8544, 8559, 1, 16 >>,
          << 8579, 8579, 1, 1 >>, << 9398, 9423, 1, 26 >>, << 11264, 11311, 1, 48 >>, << 11360, 11360, 1, 1 >>,
          << 11362, 11362, 1, -10743 >>, << 11363, 11363, 1, -3814 >>, << 11364, 11364, 1, -10727 >>, << 11367, 11371, 2, 1 >>,
          << 11373, 11373, 1, -10780 >>, << 11374, 11374, 1, -10749 >>, << 11375, 11375, 1, -10783 >>, << 11376, 11376, 1, -10782 >>,
          << 11378, 11378, 1, 1 >>, << 11381, 11381, 1, 1 >>, << 11390, 11391, 1, -10815 >>, << 11392, 11490, 2, 1 >>,
          << 11499, 11501, 2, 1 >>, << 11506, 11506, 1, 1 >>, << 42560, 42604, 2, 1 >>, << 42624, 42650, 2, 1 >>,
          << 42786, 42798, 2, 1 >>, << 42802, 42862, 2, 1 >>, << 42873, 42875, 2, 1 >>, << 42877, 42877, 1, -35332 >>,
          << 42878, 42886, 2, 1 >>, << 42891, 42891, 1, 1 >>, << 42893, 42893, 1, -42280 >>, << 42896, 42898, 2, 1 >>,
          << 42902, 42920, 2, 1 >>, << 42922, 42922, 1, -42308 >>, << 42923, 42923, 1, -42319 >>, << 42924, 42924, 1, -42315 >>,
          << 42925, 42925, 1, -42305 >>, << 42926, 42926, 1, -42308 >>, << 42928, 42928, 1, -42258 >>, << 42929, 42929, 1, -42282 >>,
          << 42930, 42930, 1, -42261 >>, << 42931, 42931, 1, 928 >>, << 42932, 42946, 2, 1 >>, << 42948, 42948, 1, -48 >>,
          << 42949, 42949, 1, -42307 >>, << 42950, 42950, 1, -35384 >>, << 42951, 42953, 2, 1 >>, << 42960, 42960, 1, 1 >>,
          << 42966, 42968, 2, 1 >>, << 42997, 42997, 1, 1 >>, << 65313, 65338, 1, 32 >>, << 66560, 66599, 1, 40 >>,
          << 66736, 66771, 1, 40 >>, << 66928, 66938, 1, 39 >>, << 66940, 66954, 1, 39 >>, << 66956, 66962, 1, 39 >>,
          << 66964, 66965, 1, 39 >>, << 68736, 68786, 1, 64 >>, << 71840, 71871, 1, 32 >>, << 93760, 93791, 1, 32 >>,
          << 125184, 125217, 1, 34 >> >>
    IN  UNION { { << CodePointToken(n), CodePointToken(n + runs[k][4]) >> :
                    n \in { m \in runs[k][1]..runs[k][2] :
                              (m - runs[k][1]) % runs[k][3] = 0 } } :
                k \in DOMAIN runs }

\* The characters str.lower() turns into one other character.
CasedUpper == { p[1] : p \in LowerPairs }

\* The characters str.lower() passes over when it looks for the cased letter
\* before or after a capital sigma (Case_Ignorable, Unicode 15).
CaseIgnorable ==
    TokensOf(
    << << 39, 39 >>, << 46, 46 >>, << 58, 58 >>, << 94, 94 >>, << 96, 96 >>, << 168, 168 >>,
      << 173, 173 >>, << 175, 175 >>, << 180, 180 >>, << 183, 184 >>, << 688, 879 >>, << 884, 885 >>,
      << 890, 890 >>, << 900, 901 >>, << 903, 903 >>, << 1155, 1161 >>, << 1369, 1369 >>, << 1375, 1375 >>,
      << 1425, 1469 >>, << 1471, 1471 >>, << 1473, 1474 >>, << 1476, 1477 >>, << 1479, 1479 >>, << 1524, 1524 >>,
      << 1536, 1541 >>, << 1552, 1562 >>, << 1564, 1564 >>, << 1600, 1600 >>, << 1611, 1631 >>, << 1648, 1648 >>,
      << 1750, 1757 >>, << 1759, 1768 >>, << 1770, 1773 >>, << 1807, 1807 >>, << 1809, 1809 >>, << 1840, 1866 >>,
      << 1958, 1968 >>, << 2027, 2037 >>, << 2042, 2042 >>, << 2045, 2045 >>, << 2070, 2093 >>, << 2137, 2139 >>,
      << 2184, 2184 >>, << 2192, 2193 >>, << 2200, 2207 >>, << 2249, 2306 >>, << 2362, 2362 >>, << 2364, 2364 >>,
      << 2369, 2376 >>, << 2381, 2381 >>, << 2385, 2391 >>, << 2402, 2403 >>, << 2417, 2417 >>, << 2433, 2433 >>,
      << 2492, 2492 >>, << 2497, 2500 >>, << 2509, 2509 >>, << 2530, 2531 >>, << 2558, 2558 >>, << 2561, 2562 >>,
      << 2620, 2620 >>, << 2625, 2626 >>, << 2631, 2632 >>, << 2635, 2637 >>, << 2641, 2641 >>, << 2672, 2673 >>,
      << 2677, 2677 >>, << 2689, 2690 >>, << 2748, 2748 >>, << 2753, 2757 >>, << 2759, 2760 >>, << 2765, 2765 >>,
      << 2786, 2787 >>, << 2810, 2815 >>, << 2817, 2817 >>, << 2876, 2876 >>, << 2879, 2879 >>, << 2881, 2884 >>,
      << 2893, 2893 >>, << 2901, 2902 >>, << 2914, 2915 >>, << 2946, 2946 >>, << 3008, 3008 >>, << 3021, 3021 >>,
      << 3072, 3072 >>, << 3076, 3076 >>, << 3132, 3132 >>, << 3134, 3136 >>, << 3142, 3144 >>, << 3146, 3149 >>,
      << 3157, 3158 >>, << 3170, 3171 >>, << 3201, 3201 >>, << 3260, 3260 >>, << 3263, 3263 >>, << 3270, 3270 >>,
      << 3276, 3277 >>, << 3298, 3299 >>, << 3328, 3329 >>, << 3387, 3388 >>, << 3393, 3396 >>, << 3405, 3405 >>,
      << 3426, 3427 >>, << 3457, 3457 >>, << 3530, 3530 >>, << 3538, 3540 >>, << 3542, 3542 >>, << 3633, 3633 >>,
      << 3636, 3642 >>, << 3654, 3662 >>, << 3761, 3761 >>, << 3764, 3772 >>, << 3782, 3782 >>, << 3784, 3790 >>,
      << 3864, 3865 >>, << 3893, 3893 >>, << 3895, 3895 >>, << 3897, 3897 >>, << 3953, 3966 >>, << 3968, 3972 >>,
      << 3974, 3975 >>, << 3981, 3991 >>, << 3993, 4028 >>, << 4038, 4038 >>, << 4141, 4144 >>, << 4146, 4151 >>,
      << 4153, 4154 >>, << 4157, 4158 >>, << 4184, 4185 >>, << 4190, 4192 >>, << 4209, 4212 >>, << 4226, 4226 >>,
      << 4229, 4230 >>, << 4237, 4237 >>, << 4253, 4253 >>, << 4348, 4348 >>, << 4957, 4959 >>, << 5906, 5908 >>,
      << 5938, 5939 >>, << 5970, 5971 >>, << 6002, 6003 >>, << 6068, 6069 >>, << 6071, 6077 >>, << 6086, 6086 >>,
      << 6089, 6099 >>, << 6103, 6103 >>, << 6109, 6109 >>, << 6155, 6159 >>, << 6211, 6211 >>, << 6277, 6278 >>,
      << 6313, 6313 >>, << 6432, 6434 >>, << 6439, 6440 >>, << 6450, 6450 >>, << 6457, 6459 >>, << 6679, 6680 >>,
      << 6683, 6683 >>, << 6742, 6742 >>, << 6744, 6750 >>, << 6752, 6752 >>, << 6754, 6754 >>, << 6757, 6764 >>,
      << 6771, 6780 >>, << 6783, 6783 >>, << 6823, 6823 >>, << 6832, 6862 >>, << 6912, 6915 >>, << 6964, 6964 >>,
      << 6966, 6970 >>, << 6972, 6972 >>, << 6978, 6978 >>, << 7019, 7027 >>, << 7040, 7041 >>, << 7074, 7077 >>,
      << 7080, 7081 >>, << 7083, 7085 >>, << 7142, 7142 >>, << 7144, 7145 >>, << 7149, 7149 >>, << 7151, 7153 >>,
      << 7212, 7219 >>, << 7222, 7223 >>, << 7288, 7293 >>, << 7376, 7378 >>, << 7380, 7392 >>, << 7394, 7400 >>,
      << 7405, 7405 >>, << 7412, 7412 >>, << 7416, 7417 >>, << 7468, 7530 >>, << 7544, 7544 >>, << 7579, 7679 >>,
      << 8125, 8125 >>, << 8127, 8129 >>, << 8141, 8143 >>, << 8157, 8159 >>, << 8173, 8175 >>, << 8189, 8190 >>,
      << 8203, 8207 >>, << 8216, 8217 >>, << 8228, 8228 >>, << 8231, 8231 >>, << 8234, 8238 >>, << 8288, 8292 >>,
      << 8294, 8303 >>, << 8305, 8305 >>, << 8319, 8319 >>, << 8336, 8348 >>, << 8400, 8432 >>, << 11388, 11389 >>,
      << 11503, 11505 >>, << 11631, 11631 >>, << 11647, 11647 >>, << 11744, 11775 >>, << 11823, 11823 >>, << 12293, 12293 >>,
      << 12330, 12333 >>, << 12337, 12341 >>, << 12347, 12347 >>, << 12441, 12446 >>, << 12540, 12542 >>, << 40981, 40981 >>,
      << 42232, 42237 >>, << 42508, 42508 >>, << 42607, 42610 >>, << 42612, 42621 >>, << 42623, 42623 >>, << 42652, 42655 >>,
      << 42736, 42737 >>, << 42752, 42785 >>, << 42864, 42864 >>, << 42888, 42890 >>, << 42994, 42996 >>, << 43000, 43001 >>,
      << 43010, 43010 >>, << 43014, 43014 >>, << 43019, 43019 >>, << 43045, 43046 >>, << 43052, 43052 >>, << 43204, 43205 >>,
      << 43232, 43249 >>, << 43263, 43263 >>, << 43302, 43309 >>, << 43335, 43345 >>, << 43392, 43394 >>, << 43443, 43443 >>,
      << 43446, 43449 >>, << 43452, 43453 >>, << 43471, 43471 >>, << 43493, 43494 >>, << 43561, 43566 >>, << 43569, 43570 >>,
      << 43573, 43574 >>, << 43587, 43587 >>, << 43596, 43596 >>, << 43632, 43632 >>, << 43644, 43644 >>, << 43696, 43696 >>,
      << 43698, 43700 >>, << 43703, 43704 >>, << 43710, 43711 >>, << 43713, 43713 >>, << 43741, 43741 >>, << 43756, 43757 >>,
      << 43763, 43764 >>, << 43766, 43766 >>, << 43867, 43871 >>, << 43881, 43883 >>, << 44005, 44005 >>, << 44008, 44008 >>,
      << 44013, 44013 >>, << 64286, 64286 >>, << 64434, 64450 >>, << 65024, 65039 >>, << 65043, 65043 >>, << 65056, 65071 >>,
      << 65106, 65106 >>, << 65109, 65109 >>, << 65279, 65279 >>, << 65287, 65287 >>, << 65294, 65294 >>, << 65306, 65306 >>,
      << 65342, 65342 >>, << 65344, 65344 >>, << 65392, 65392 >>, << 65438, 65439 >>, << 65507, 65507 >>, << 65529, 65531 >>,
      << 66045, 66045 >>, << 66272, 66272 >>, << 66422, 66426 >>, << 67456, 67461 >>, << 67463, 67504 >>, << 67506, 67514 >>,
      << 68097, 68099 >>, << 68101, 68102 >>, << 68108, 68111 >>, << 68152, 68154 >>, << 68159, 68159 >>, << 68325, 68326 >>,
      << 68900, 68903 >>, << 69291, 69292 >>, << 69373, 69375 >>, << 69446, 69456 >>, << 69506, 69509 >>, << 69633, 69633 >>,
      << 69688, 69702 >>, << 69744, 69744 >>, << 69747, 69748 >>, << 69759, 69761 >>, << 69811, 69814 >>, << 69817, 69818 >>,
      << 69821, 69821 >>, << 69826, 69826 >>, << 69837, 69837 >>, << 69888, 69890 >>, << 69927, 69931 >>, << 69933, 69940 >>,
      << 70003, 70003 >>, << 70016, 70017 >>, << 70070, 70078 >>, << 70089, 70092 >>, << 70095, 70095 >>, << 70191, 70193 >>,
      << 70196, 70196 >>, << 70198, 70199 >>, << 70206, 70206 >>, << 70209, 70209 >>, << 70367, 70367 >>, << 70371, 70378 >>,
      << 70400, 70401 >>, << 70459, 70460 >>, << 70464, 70464 >>, << 70502, 70508 >>, << 70512, 70516 >>, << 70712, 70719 >>,
      << 70722, 70724 >>, << 70726, 70726 >>, << 70750, 70750 >>, << 70835, 70840 >>, << 70842, 70842 >>, << 70847, 70848 >>,
      << 70850, 70851 >>, << 71090, 71093 >>, << 71100, 71101 >>, << 71103, 71104 >>, << 71132, 71133 >>, << 71219, 71226 >>,
      << 71229, 71229 >>, << 71231, 71232 >>, << 71339, 71339 >>, << 71341, 71341 >>, << 71344, 71349 >>, << 71351, 71351 >>,
      << 71453, 71455 >>, << 71458, 71461 >>, << 71463, 71467 >>, << 71727, 71735 >>, << 71737, 71738 >>, << 71995, 71996 >>,
      << 71998, 71998 >>, << 72003, 72003 >>, << 72148, 72151 >>, << 72154, 72155 >>, << 72160, 72160 >>, << 72193, 72202 >>,
      << 72243, 72248 >>, << 72251, 72254 >>, << 72263, 72263 >>, << 72273, 72278 >>, << 72281, 72283 >>, << 72330, 72342 >>,
      << 72344, 72345 >>, << 72752, 72758 >>, << 72760, 72765 >>, << 72767, 72767 >>, << 72850, 72871 >>, << 72874, 72880 >>,
      << 72882, 72883 >>, << 72885, 72886 >>, << 73009, 73014 >>, << 73018, 73018 >>, << 73020, 73021 >>, << 73023, 73029 >>,
      << 73031, 73031 >>, << 73104, 73105 >>, << 73109, 73109 >>, << 73111, 73111 >>, << 73459, 73460 >>, << 73472, 73473 >>,
      << 73526, 73530 >>, << 73536, 73536 >>, << 73538, 73538 >>, << 78896, 78912 >>, << 78919, 78933 >>, << 92912, 92916 >>,
      << 92976, 92982 >>, << 92992, 92995 >>, << 94031, 94031 >>, << 94095, 94111 >>, << 94176, 94177 >>, << 94179, 94180 >>,
      << 110576, 110579 >>, << 110581, 110587 >>, << 110589, 110590 >>, << 113821, 113822 >>, << 113824, 113827 >>, << 118528, 118573 >>,
      << 118576, 118598 >>, << 119143, 119145 >>, << 119155, 119170 >>, << 119173, 119179 >>, << 119210, 119213 >>, << 119362, 119364 >>,
      << 121344, 121398 >>, << 121403, 121452 >>, << 121461, 121461 >>, << 121476, 121476 >>, << 121499, 121503 >>, << 121505, 121519 >>,
      << 122880, 122886 >>, << 122888, 122904 >>, << 122907, 122913 >>, << 122915, 122916 >>, << 122918, 122922 >>, << 122928, 122989 >>,
      << 123023, 123023 >>, << 123184, 123197 >>, << 123566, 123566 >>, << 123628, 123631 >>, << 124139, 124143 >>, << 125136, 125142 >>,
      << 125252, 125259 >>, << 127995, 127999 >>, << 917505, 917505 >>, << 917536, 917631 >>, << 917760, 917999 >> >>)

\* The characters that are cased letters and not passed over (Cased and not
\* Case_Ignorable, Unicode 15).
Cased ==
    TokensOf(
    << << 65, 90 >>, << 97, 122 >>, << 170, 170 >>, << 181, 181 >>, << 186, 186 >>, << 192, 214 >>,
      << 216, 246 >>, << 248, 442 >>, << 444, 447 >>, << 452, 659 >>, << 661, 687 >>, << 880, 883 >>,
      << 886, 887 >>, << 891, 893 >>, << 895, 895 >>, << 902, 902 >>, << 904, 906 >>, << 908, 908 >>,
      << 910, 929 >>, << 931, 1013 >>, << 1015, 1153 >>, << 1162, 1327 >>, << 1329, 1366 >>, << 1376, 1416 >>,
      << 4256, 4293 >>, << 4295, 4295 >>, << 4301, 4301 >>, << 4304, 4346 >>, << 4349, 4351 >>, << 5024, 5109 >>,
      << 5112, 5117 >>, << 7296, 7304 >>, << 7312, 7354 >>, << 7357, 7359 >>, << 7424, 7467 >>, << 7531, 7543 >>,
      << 7545, 7578 >>, << 7680, 7957 >>, << 7960, 7965 >>, << 7968, 8005 >>, << 8008, 8013 >>, << 8016, 8023 >>,
      << 8025, 8025 >>, << 8027, 8027 >>, << 8029, 8029 >>, << 8031, 8061 >>, << 8064, 8116 >>, << 8118, 8124 >>,
      << 8126, 8126 >>, << 8130, 8132 >>, << 8134, 8140 >>, << 8144, 8147 >>, << 8150, 8155 >>, << 8160, 8172 >>,
      << 8178, 8180 >>, << 8182, 8188 >>, << 8450, 8450 >>, << 8455, 8455 >>, << 8458, 8467 >>, << 8469, 8469 >>,
      << 8473, 8477 >>, << 8484, 8484 >>, << 8486, 8486 >>, << 8488, 8488 >>, << 8490, 8493 >>, << 8495, 8500 >>,
      << 8505, 8505 >>, << 8508, 8511 >>, << 8517, 8521 >>, << 8526, 8526 >>, << 8544, 8575 >>, << 8579, 8580 >>,
      << 9398, 9449 >>, << 11264, 11387 >>, << 11390, 11492 >>, << 11499, 11502 >>, << 11506, 11507 >>, << 11520, 11557 >>,
      << 11559, 11559 >>, << 11565, 11565 >>, << 42560, 42605 >>, << 42624, 42651 >>, << 42786, 42863 >>, << 42865, 42887 >>,
      << 42891, 42894 >>, << 42896, 42954 >>, << 42960, 42961 >>, << 42963, 42963 >>, << 42965, 42969 >>, << 42997, 42998 >>,
      << 43002, 43002 >>, << 43824, 43866 >>, << 43872, 43880 >>, << 43888, 43967 >>, << 64256, 64262 >>, << 64275, 64279 >>,
      << 65313, 65338 >>, << 65345, 65370 >>, << 66560, 66639 >>, << 66736, 66771 >>, << 66776, 66811 >>, << 66928, 66938 >>,
      << 66940, 66954 >>, << 66956, 66962 >>, << 66964, 66965 >>, << 66967, 66977 >>, << 66979, 66993 >>, << 66995, 67001 >>,
      << 67003, 67004 >>, << 68736, 68786 >>, << 68800, 68850 >>, << 71840, 71903 >>, << 93760, 93823 >>, << 119808, 119892 >>,
      << 119894, 119964 >>, << 119966, 119967 >>, << 119970, 119970 >>, << 119973, 119974 >>, << 119977, 119980 >>, << 119982, 119993 >>,
      << 119995, 119995 >>, << 119997, 120003 >>, << 120005, 120069 >>, << 120071, 120074 >>, << 120077, 120084 >>, << 120086, 120092 >>,
      << 120094, 120121 >>, << 120123, 120126 >>, << 120128, 120132 >>, << 120134, 120134 >>, << 120138, 120144 >>, << 120146, 120485 >>,
      << 120488, 120512 >>, << 120514, 120538 >>, << 120540, 120570 >>, << 120572, 120596 >>, << 120598, 120628 >>, << 120630, 120654 >>,
      << 120656, 120686 >>, << 120688, 120712 >>, << 120714, 120744 >>, << 120746, 120770 >>, << 120772, 120779 >>, << 122624, 122633 >>,
      << 122635, 122654 >>, << 122661, 122666 >>, << 125184, 125251 >>, << 127280, 127305 >>, << 127312, 127337 >>, << 127344, 127369 >> >>)

\* str.lower() on a string of one character: the string it becomes.  Capital I
\* with dot above becomes two code points; a capital sigma alone becomes the
\* small sigma.
LowerChar(c) ==
    IF c = "<U+0130>" THEN << "i", "<U+0307>" >>
    ELSE IF c \in CasedUpper
    THEN << (CHOOSE p \in LowerPairs : p[1] = c)[2] >>
    ELSE << c >>

\* str.lower(): the lowered characters one after another.  A capital sigma that
\* follows a cased letter and is followed by none (characters that are passed
\* over apart) becomes the final sigma.  Where every character becomes one
\* character the result is built position by position; else the character at
\* position i of the text begins at position i plus the number of two-character
\* results before it.
Lower(text) ==
    LET before(i) == { j \in 1..(i - 1) : text[j] \notin CaseIgnorable }
        after(i) == { j \in (i + 1)..Len(text) : text[j] \notin CaseIgnorable }
        last_of(S) == CHOOSE j \in S : \A k \in S : k <= j
        first_of(S) == CHOOSE j \in S : \A k \in S : j <= k
        final_sigma(i) ==
            /\ before(i) # {}
            /\ text[last_of(before(i))] \in Cased
            /\ after(i) = {} \/ text[first_of(after(i))] \notin Cased
        at(i) ==
            IF text[i] = "<U+03A3>"
            THEN << IF final_sigma(i) THEN "<U+03C2>" ELSE "<U+03C3>" >>
            ELSE LowerChar(text[i])
        start(i) == i + Cardinality({ j \in 1..(i - 1) : Len(at(j)) = 2 })
        length == Len(text) + Cardinality({ j \in 1..Len(text) : Len(at(j)) = 2 })
    IN  IF \A i \in 1..Len(text) : Len(at(i)) = 1
        THEN [i \in 1..Len(text) |-> at(i)[1]]
        ELSE [k \in 1..length |->
                LET i == CHOOSE j \in 1..Len(text) : start(j) <= k /\ k < start(j) + Len(at(j))
                IN  at(i)[k - start(i) + 1]]

RECURSIVE LStrip(_)
LStrip(text) ==
    IF text # <<>> /\ Head(text) \in Whitespace THEN LStrip(Tail(text)) ELSE text

RECURSIVE RStrip(_)
RStrip(text) ==
    IF text # <<>> /\ text[Len(text)] \in Whitespace
    THEN RStrip(SubSeq(text, 1, Len(text) - 1))
    ELSE text

\* str.strip()
Strip(text) == RStrip(LStrip(text))

\* re.sub(r'\s+', ' ', text): every maximal run of whitespace becomes one space.
\* A whitespace character that follows another one continues a run and is
\* dropped; the first of a run is written as a space.
CollapseWhitespace(text) ==
    LET marked == [i \in 1..Len(text) |->
                     [char |-> IF text[i] \in Whitespace THEN " " ELSE text[i],
                      continues |-> /\ i > 1
                                    /\ text[i] \in Whitespace
                                    /\ text[i - 1] \in Whitespace]]
        Starts(m) == ~m.continues
        kept == SelectSeq(marked, Starts)
    IN  [i \in 1..Len(kept) |-> kept[i].char]

\* text[:limit] dropped: the text is kept whole.
TruncateNever(text, limit) == text

\* text[:limit]
Truncate(text, limit) ==
    IF Len(text) <= limit THEN text ELSE SubSeq(text, 1, limit)

MAX_INPUT_LENGTH == 2000

SanitizeTo(text, limit) == Truncate(CollapseWhitespace(Strip(text)), limit)

sanitize_input(text) == SanitizeTo(text, MAX_INPUT_LENGTH)

\* str.startswith replaced by a substring test.
OccursIn(text, prefix) ==
    \E i \in 1..(Len(text) + 1) :
        /\ i + Len(prefix) - 1 <= Len(text)
        /\ SubSeq(text, i, i + Len(prefix) - 1) = prefix

\* str.startswith
StartsWith(text, prefix) ==
    /\ Len(prefix) <= Len(text)
    /\ SubSeq(text, 1, Len(prefix)) = prefix

check_exit_intent(message, exit_keywords) ==
    LET normalized == Lower(Strip(message))
    IN  \/ normalized \in exit_keywords
        \/ \E keyword \in exit_keywords : StartsWith(normalized, keyword)

\* ---------------------------------------------------------- src/models.py

\* The attributes a CandidateInfo inherits from BaseModel that are None on a
\* new object and that setattr sets (pydantic 2.13).
SettableAttributes ==
    { "__hash__", "__pydantic_extra__", "__pydantic_extra_info__",
      "__pydantic_parent_namespace__", "__pydantic_post_init__",
      "__pydantic_private__" }

\* CandidateInfo(): every field None, and the inherited attributes that start
\* as None with it.
EmptyCandidate == [f \in FieldNames \cup SettableAttributes |-> None]

get_missing_fields(cand) == SelectSeq(CANDIDATE_FIELDS, LAMBDA f : cand[f] = None)

get_filled_fields(cand) == SelectSeq(CANDIDATE_FIELDS, LAMBDA f : cand[f] # None)

is_complete(cand) == Len(get_missing_fields(cand)) = 0

\* int((filled / total) * 100): the quotient is cut, not rounded.  For a total
\* of 7 the float product and the integer quotient have the same integer part.
get_completion_percentage(cand) ==
    (Len(get_filled_fields(cand)) * 100) \div Len(CANDIDATE_FIELDS)

\* ------------------------------------------------------ src/llm_client.py

NoBlock == [kind |-> "none", extracted |-> <<>>, all_collected |-> "absent"]

\* The fixed text get_chat_response returns when the provider call fails, one
\* character a token; "<U+1F64F>" is the folded hands sign that ends it.
APOLOGY_TEXT ==
    << "I", " ", "a", "p", "o", "l", "o", "g", "i", "z", "e", ",", " ", "b",
       "u", "t", " ", "I", "'", "m", " ", "e", "x", "p", "e", "r", "i", "e",
       "n", "c", "i", "n", "g", " ", "a", " ", "b", "r", "i", "e", "f", " ",
       "t", "e", "c", "h", "n", "i", "c", "a", "l", " ", "i", "s", "s", "u",
       "e", ".", " ", "C", "o", "u", "l", "d", " ", "y", "o", "u", " ", "p",
       "l", "e", "a", "s", "e", " ", "r", "e", "p", "e", "a", "t", " ", "y",
       "o", "u", "r", " ", "l", "a", "s", "t", " ", "m", "e", "s", "s", "a",
       "g", "e", "?", " ", "I", " ", "w", "a", "n", "t", " ", "t", "o", " ",
       "m", "a", "k", "e", " ", "s", "u", "r", "e", " ", "I", " ", "c", "a",
       "p", "t", "u", "r", "e", " ", "e", "v", "e", "r", "y", "t", "h", "i",
       "n", "g", " ", "c", "o", "r", "r", "e", "c", "t", "l", "y", ".", " ",
       "<U+1F64F>" >>

ApologyReply == [body |-> APOLOGY_TEXT, block |-> NoBlock]

\* get_chat_response without its except branch: a failed call gives no apology.
get_chat_response_no_fallback(outcome) == outcome.text

\* An outcome of the provider call: it raised (ok = FALSE) or returned `text`.
\* get_chat_response returns the text, or the apology when the call raised.
get_chat_response(outcome) == IF outcome.ok THEN outcome.text ELSE ApologyReply

\* generate_technical_questions formats the template and returns
\* get_chat_response's result.
generate_technical_questions(outcome) == get_chat_response(outcome)

NeutralResult == [sentiment |-> "neutral", confidence |-> 50]

\* analyze_sentiment building its result without validation: a null label is
\* kept.
analyze_sentiment_unvalidated(outcome) ==
    LET response == get_chat_response(outcome)
        data == response.block
    IN  IF data.kind # "sentiment" THEN NeutralResult
        ELSE [sentiment |-> CASE data.sentiment = "<absent>" -> "neutral"
                              [] data.sentiment = "<not a string>" -> None
                              [] OTHER -> data.sentiment,
              confidence |-> data.confidence]

\* analyze_sentiment: json.loads of the reply, then SentimentResult(...); any
\* exception (no JSON, not an object, a sentiment that is no string) gives
\* neutral / 0.5.  Confidence is in hundredths.
analyze_sentiment(outcome) ==
    LET response == get_chat_response(outcome)
        data == response.block
    IN  IF data.kind # "sentiment" THEN NeutralResult
        ELSE IF data.sentiment = "<not a string>" THEN NeutralResult
        ELSE [sentiment |-> IF data.sentiment = "<absent>" THEN "neutral"
                                 ELSE data.sentiment,
              confidence |-> data.confidence]

\* extract_json_from_response: the parsed JSON object of the reply's block, or
\* nothing (found = FALSE) when there is no block or it does not parse.
extract_json_from_response(response) ==
    LET b == response.block
    IN  IF b.kind \in {"none", "malformed"}
        THEN [found |-> FALSE, has_extracted |-> FALSE, extracted_type |-> "none",
              extracted |-> <<>>, all_collected |-> "absent"]
        ELSE [found |-> TRUE,
              has_extracted |-> b.kind # "no_extracted",
              extracted_type |-> CASE b.kind = "mapping" -> "dict"
                                   [] b.kind = "extracted_null" -> "null"
                                   [] b.kind = "extracted_string" -> "str"
                                   [] b.kind = "extracted_list" -> "list"
                                   [] OTHER -> "none",
              extracted |-> b.extracted,
              all_collected |-> b.all_collected]

\* re.sub(r'\n{3,}', '\n\n', text): a newline after two newlines is dropped.
CollapseNewlines(text) ==
    LET Third(i) == /\ i > 2
                    /\ text[i] = "\n"
                    /\ text[i - 1] = "\n"
                    /\ text[i - 2] = "\n"
        positions == [i \in 1..Len(text) |-> i]
        Kept(i) == ~Third(i)
        kept == SelectSeq(positions, Kept)
    IN  IF \A i \in 1..Len(text) : ~Third(i) THEN text
        ELSE [i \in 1..Len(kept) |-> text[kept[i]]]

\* strip_json_from_response: the reply without its JSON block, trimmed, its runs
\* of three or more newlines cut to two.
strip_json_from_response(response) == CollapseNewlines(Strip(response.body))

\* The text of a reply as the candidate sees it when nothing is stripped.
Render(response) ==
    IF response.block.kind = "none" THEN response.body
    ELSE response.body \o << "\n", "<json-block>" >>

\* ----------------------------------------------------- src/conversation.py

VARIABLES
    state,                      \* self.state
    candidate,                  \* self.candidate
    messages,                   \* self.messages
    technical_questions_asked,  \* self.technical_questions_asked
    current_sentiment,          \* self.current_sentiment
    raw_tech_questions,         \* self.raw_tech_questions
    greetings,                  \* the number of generate_greeting calls so far
    question_calls,             \* the number of question-generation calls so far
    last,                       \* the last engine call: its inputs and what it gave back
    arg,                        \* the argument a function of utils.py is applied to
    result,                     \* what the function gave for it
    session,                    \* st.session_state of app.py
    page                        \* the page of app.py: the environment's key, whether the
                                \* script is running, and what its last run rendered

vars == << state, candidate, messages, technical_questions_asked,
           current_sentiment, raw_tech_questions, greetings, question_calls,
           last, arg, result, session, page >>

\* The variables the engine's operations leave alone.
function_vars == << arg, result >>

\* The variables of app.py.
app_vars == << session, page >>

\* The fields of the engine, and what the model records about its calls.
engine_vars == << state, candidate, messages, technical_questions_asked,
                  current_sentiment, raw_tech_questions, greetings, question_calls,
                  last >>

Message(role, content) == [role |-> role, content |-> content]

\* A provider call that was not made.
NotCalled == [called |-> FALSE, ok |-> FALSE, text |-> [body |-> <<>>, block |-> NoBlock]]

Called(outcome) == [called |-> TRUE, ok |-> outcome.ok, text |-> outcome.text]

NoCall ==
    [op |-> "none", path |-> "none", outcome |-> "none", user_message |-> <<>>,
     response |-> <<>>, tag |-> None, context |-> <<>>, calls |-> <<>>,
     chat |-> NotCalled,
     sentiment_call |-> NotCalled, question_call |-> NotCalled]

\* No function of utils.py has been applied.
NoResult == [done |-> FALSE, once |-> <<>>, twice |-> <<>>]

\* self.messages.append({"role": role, "content": content}) replacing the list.
AppendMessageReplacing(msgs, role, content) == << Message(role, content) >>

\* self.messages.append({"role": role, "content": content})
AppendMessage(msgs, role, content) == Append(msgs, Message(role, content))

\* ConversationManager.__init__
EngineInit ==
    /\ state = GREETING
    /\ candidate = EmptyCandidate
    /\ messages = <<>>
    /\ technical_questions_asked = FALSE
    /\ current_sentiment = "neutral"
    /\ raw_tech_questions = <<>>
    /\ greetings = 0
    /\ question_calls = 0
    /\ last = NoCall

\* init_session_state (lines 288-304) on an empty session; chat_history and the
\* session's copy of the mood are display data and are left out.
init_session_state ==
    [initialized |-> FALSE, api_key_set |-> FALSE, conversation_manager |-> FALSE,
     greeting_sent |-> FALSE, parsed_questions |-> <<>>,
     questions_submitted |-> FALSE]

\* The page before the script has run, with GROQ_API_KEY of config.py as `key`;
\* `at` is where a running script stands: at the top of main, or at the
\* st.markdown(response) of line 648; key and construct record the last call
\* of start_conversation: the key it used and whether the facade was built.
NoPage(key) ==
    [env_key |-> key, running |-> TRUE, at |-> "top", body |-> "none",
     event |-> "none", key |-> <<>>, construct |-> "none", resets |-> 0]

\* The engine and the functions of utils.py used without app.py.
NoApp ==
    /\ session = init_session_state
    /\ page = NoPage(<<>>)

Init ==
    /\ EngineInit
    /\ NoApp
    /\ arg = <<>>
    /\ result = NoResult

\* ------------------------------------------------------------------ inputs

\* What the candidate types: "hi", and " Bye  now" followed by a newline.
UserTexts ==
    { << "h", "i" >>,
      << " ", "B", "y", "e", " ", " ", "n", "o", "w", "\n" >> }

Failure == [ok |-> FALSE, text |-> [body |-> <<>>, block |-> NoBlock]]

Returned(text) == [ok |-> TRUE, text |-> text]

\* Replies to a plain chat call (greeting, exit, technical Q&A, closing, fallback).
ChatOutcomes ==
    { Failure,
      Returned([body |-> << "Thanks!", " ", "Go", " ", "on." >>, block |-> NoBlock]) }

\* Replies to the question-generation call: the call raises; a block of one
\* question; an empty text; a block of two groups whose questions get the same
\* key in the answer form; and a block of two groups of one name.
QuestionOutcomes ==
    { Failure,
      Returned([body |-> << "#", "#", "#", " ", "P", "y", "\n",
                            "1", ".", " ", "W", "h", "a", "t", " ", "i", "s", " ",
                            "G", "I", "L" >>,
                block |-> NoBlock]),
      Returned([body |-> <<>>, block |-> NoBlock]),
      Returned([body |-> << "#", "#", "#", " ", "A", "\n", "1", ".", " ", "x", " ", "-", " ", "Q",
                            "1", ":", " ", "w", "h", "a", "t", " ", "i", "s", " ", "t", "h", "e",
                            " ", "G", "I", "L", "\n", "#", "#", "#", " ", "A", " ", "-", " ", "Q",
                            "1", ":", " ", "x", "\n", "1", ".", " ", "w", "h", "a", "t", " ", "i",
                            "s", " ", "t", "h", "e", " ", "G", "I", "L" >>,
                block |-> NoBlock]),
      Returned([body |-> << "#", "#", "#", " ", "A", "\n", "1", ".", " ", "w", "h", "a", "t", " ",
                            "i", "s", " ", "t", "h", "e", " ", "G", "I", "L", "\n", "#", "#", "#",
                            " ", "A", "\n", "2", ".", " ", "w", "h", "y", " ", "i", "s", " ", "i",
                            "t", " ", "t", "h", "e", "r", "e" >>,
                block |-> NoBlock]) }

\* Replies to the sentiment call.
SentimentBlock(label) == [kind |-> "sentiment", sentiment |-> label, confidence |-> 90]

\* Every kind of reply to the sentiment call: the call raises; the reply is
\* prose, broken JSON, or JSON that is no object; the object names a label of
\* SENTIMENT_MAP, a label outside it, no label, or null for the label.
SentimentReplies ==
    { Failure,
      Returned([body |-> << "She", " ", "sounds", " ", "happy." >>, block |-> NoBlock]),
      Returned([body |-> <<>>, block |-> [kind |-> "malformed"]]),
      Returned([body |-> <<>>, block |-> [kind |-> "not_object"]]),
      Returned([body |-> <<>>, block |-> SentimentBlock("positive")]),
      Returned([body |-> <<>>, block |-> SentimentBlock("nervous")]),
      Returned([body |-> <<>>, block |-> SentimentBlock("angry")]),
      Returned([body |-> <<>>, block |-> SentimentBlock("<absent>")]),
      Returned([body |-> <<>>, block |-> SentimentBlock("<not a string>")]) }

\* The JSON values an extraction block gives a field: null, "null", "", or a name.
FieldValues == { None, "null", "", "Ada", "Bob" }

\* A JSON object as json.loads gives it: its items, each a key and a value, in
\* the order of the text.
Item(key, value) == << key, value >>

\* The object naming the first k fields of the schema, each with `value`.
FirstItems(k, value) == [i \in 1..k |-> Item(CANDIDATE_FIELDS[i], value)]

\* Objects with keys that are no fields: "model_extra" between two fields;
\* "__weakref__" after all the fields; "nickname", "get_summary", the
\* attributes that can be set other than "__pydantic_extra__", and
\* "__signature__", before a field; "__pydantic_extra__" before "model_extra",
\* alone and between two fields; "__pydantic_extra__" before "nickname" and a
\* field; and "__pydantic_extra__" with a value in which the next key occurs,
\* before a field.
OtherKeyMappings ==
    { << Item("full_name", "Ada"), Item("model_extra", "x"), Item("email", "Ada") >>,
      FirstItems(Len(CANDIDATE_FIELDS), "Ada") \o << Item("__weakref__", "x") >>,
      << Item("nickname", "Ada"), Item("get_summary", "Ada"),
         Item("__pydantic_private__", "x"), Item("__hash__", "x"),
         Item("__pydantic_post_init__", "x"), Item("__pydantic_extra_info__", "x"),
         Item("__pydantic_parent_namespace__", "x"), Item("__signature__", "x"),
         Item("full_name", "Bob") >>,
      << Item("__pydantic_extra__", "x"), Item("model_extra", "y") >>,
      << Item("full_name", "Ada"), Item("__pydantic_extra__", "x"),
         Item("model_extra", "y"), Item("email", "Ada") >>,
      << Item("__pydantic_extra__", "x"), Item("nickname", "Ada"),
         Item("phone", "Ada") >>,
      << Item("__pydantic_extra__", "nickname"), Item("nick", "Ada"),
         Item("phone", "Ada") >> }

\* An extraction names the first k fields with the value "Ada", or all the
\* fields with one of the values.
ExtractedMappings ==
    { FirstItems(k, "Ada") : k \in 0..Len(CANDIDATE_FIELDS) }
    \cup { FirstItems(Len(CANDIDATE_FIELDS), v) : v \in FieldValues }

ExtractionBlocks ==
    { NoBlock,
      [kind |-> "malformed", extracted |-> <<>>, all_collected |-> "absent"],
      [kind |-> "no_extracted", extracted |-> <<>>, all_collected |-> "true"],
      [kind |-> "extracted_null", extracted |-> <<>>, all_collected |-> "true"],
      [kind |-> "extracted_string", extracted |-> <<>>, all_collected |-> "false"],
      [kind |-> "extracted_list", extracted |-> <<>>, all_collected |-> "absent"] }
    \cup
    { [kind |-> "mapping", extracted |-> m, all_collected |-> a] :
        m \in ExtractedMappings, a \in {"false", "true"} }

\* Replies to the info-gathering call.
ExtractionOutcomes ==
    { Failure } \cup
    { Returned([body |-> << "Got", " ", "it.", "\n", "\n" >>, block |-> b]) :
        b \in ExtractionBlocks }

\* A few replies to the info-gathering call: the call raises, a reply without a
\* block, a block whose "extracted" is null, a block that fills the profile.
FewExtractionOutcomes ==
    { Failure } \cup
    { Returned([body |-> << "Got", " ", "it.", "\n", "\n" >>, block |-> b]) :
        b \in { NoBlock,
                [kind |-> "extracted_null", extracted |-> <<>>, all_collected |-> "true"],
                [kind |-> "mapping",
                 extracted |-> FirstItems(Len(CANDIDATE_FIELDS), "Ada"),
                 all_collected |-> "true"] } }

\* ---------------------------------------------------------------- handlers

\* `value and value != "null"` (conversation.py line 141), on a JSON null or string.
Accepted(value) == value # None /\ value # "" /\ value # "null"

\* MergeField without the `current is None` test: the last value wins.
MergeFieldOverwrite(current, value) ==
    IF Accepted(value) THEN value ELSE current

\* MergeField writing a JSON null through: the field is cleared.
MergeFieldNulling(current, value) ==
    IF value = None THEN None
    ELSE IF Accepted(value) /\ current = None THEN value ELSE current

\* Lines 141-144: a field is set from an accepted value only while it is None.
\* str(value) of a string is the string.
MergeField(current, value) ==
    IF Accepted(value) /\ current = None THEN value ELSE current

\* The attributes of a CandidateInfo that are no fields, are None and stay None:
\* setattr raises AttributeError for them.  model_extra is a property that
\* gives the value of __pydantic_extra__, so it is None only while that is.
UnsettableAttributes == { "model_extra", "__weakref__" }

\* Attributes of a CandidateInfo that are no fields and are not None: the
\* methods it defines, and the methods and class attributes it inherits from
\* BaseModel (pydantic 2.13) and from object; the last two are set by Python
\* from 3.13 on.  "__signature__" is not among them: it is an attribute of the
\* class only.
MethodAttributes ==
    { "get_completion_percentage", "get_filled_fields", "get_missing_fields",
      "get_summary", "is_complete",
      "construct", "copy", "dict", "from_orm", "json", "model_computed_fields",
      "model_config", "model_construct", "model_copy", "model_dump",
      "model_dump_json", "model_fields", "model_fields_set", "model_json_schema",
      "model_parametrized_name", "model_post_init", "model_rebuild",
      "model_validate", "model_validate_json", "model_validate_strings",
      "parse_file", "parse_obj", "parse_raw", "schema", "schema_json",
      "update_forward_refs", "validate",
      "_abc_impl", "_calculate_keys", "_copy_and_set_values", "_get_value",
      "_iter", "_setattr_handler",
      "__abstractmethods__", "__annotations__", "__class__", "__class_getitem__",
      "__class_vars__", "__copy__", "__deepcopy__", "__delattr__", "__dict__",
      "__dir__", "__doc__", "__eq__", "__fields__", "__fields_set__",
      "__format__", "__ge__", "__get_pydantic_core_schema__",
      "__get_pydantic_json_schema__", "__getattr__", "__getattribute__",
      "__getstate__", "__gt__", "__init__", "__init_subclass__", "__iter__",
      "__le__", "__lt__", "__module__", "__ne__", "__new__", "__pretty__",
      "__private_attributes__", "__pydantic_complete__",
      "__pydantic_computed_fields__", "__pydantic_core_schema__",
      "__pydantic_custom_init__", "__pydantic_decorators__",
      "__pydantic_fields__", "__pydantic_fields_set__",
      "__pydantic_generic_metadata__", "__pydantic_init_subclass__",
      "__pydantic_on_complete__", "__pydantic_root_model__",
      "__pydantic_serializer__", "__pydantic_setattr_handlers__",
      "__pydantic_validator__", "__reduce__", "__reduce_ex__", "__replace__",
      "__repr__", "__repr_args__", "__repr_name__", "__repr_recursion__",
      "__repr_str__", "__rich_repr__", "__setattr__", "__setstate__",
      "__sizeof__", "__slots__", "__str__", "__subclasshook__",
      "__firstlineno__", "__static_attributes__" }

\* `part in text` on two strings: part occurs in text as a run of characters;
\* the empty string occurs in every string.
Contains(text, part) ==
    \E i \in 1..(Len(text) - Len(part) + 1) : SubSeq(text, i, i + Len(part) - 1) = part

\* hasattr(self.candidate, field) (line 141): "yes", "no", or "raises".  A name
\* the object does not have goes to BaseModel.__getattr__: when something is
\* stored in __pydantic_extra__ and `item in pydantic_extra` holds, it returns
\* pydantic_extra[item].  What is stored there is a string, so the test is for
\* a run of characters and the indexing raises TypeError, which hasattr does
\* not catch; otherwise AttributeError is raised and hasattr is False.
HasAttr(cand, key) ==
    IF key \in DOMAIN cand \cup UnsettableAttributes \cup MethodAttributes THEN "yes"
    ELSE IF cand["__pydantic_extra__"] # None /\ Contains(cand["__pydantic_extra__"], key)
    THEN "raises"
    ELSE "no"

\* The loop of lines 140-144 over extracted.items() from item i on.  A field,
\* or an inherited attribute that is None and can be set, is set from an
\* accepted value while it is None; a key that is no attribute or whose
\* attribute is not None is passed over; and the loop ends with an exception
\* where hasattr raises and at a key whose attribute is None and cannot be set.
\* The items before that key are merged then, those after it not.
RECURSIVE MergeItems(_, _, _)
MergeItems(cand, extracted, i) ==
    IF i > Len(extracted) THEN [candidate |-> cand, raised |-> FALSE]
    ELSE LET key == extracted[i][1]
             value == extracted[i][2]
             is_none == IF key = "model_extra" THEN cand["__pydantic_extra__"] = None
                        ELSE key = "__weakref__"
         IN  IF key \in DOMAIN cand
             THEN MergeItems([cand EXCEPT ![key] = MergeField(@, value)],
                             extracted, i + 1)
             ELSE IF Accepted(value)
                     /\ \/ HasAttr(cand, key) = "raises"
                        \/ HasAttr(cand, key) = "yes" /\ is_none
             THEN [candidate |-> cand, raised |-> TRUE]
             ELSE MergeItems(cand, extracted, i + 1)

\* The loop of lines 140-144 over extracted.items().
MergeExtracted(cand, extracted) == MergeItems(cand, extracted, 1)

\* extracted_json.get("all_collected"), as a condition.
AllCollected(json) == json.all_collected = "true"

\* Line 138 without its test: the extraction is read whatever was parsed.
HasExtractedUnchecked(json) == TRUE

\* Line 138: the parsed object is non-empty and has the key "extracted".
HasExtracted(json) == json.found /\ json.has_extracted

\* Lines 146-152 moving straight to the answering phase.
AdvanceToAnswering(st, json, cand) ==
    IF (HasExtracted(json) /\ AllCollected(json)) \/ is_complete(cand)
    THEN ANSWERING_QUESTIONS ELSE st

\* Lines 146-152 looking at the all_collected mark alone.
AdvanceOnMarkOnly(st, json, cand) ==
    IF HasExtracted(json) /\ AllCollected(json) THEN TECH_QUESTIONS ELSE st

\* The state after lines 146-152.
AdvanceAfterMerge(st, json, cand) ==
    LET st1 == IF HasExtracted(json) /\ (AllCollected(json) \/ is_complete(cand))
               THEN TECH_QUESTIONS ELSE st
    IN  IF is_complete(cand) /\ st1 # TECH_QUESTIONS THEN TECH_QUESTIONS ELSE st1

\* Line 158 testing for the wrong state.
GeneratesQuestionsWrongState(st, asked) == st = ANSWERING_QUESTIONS /\ ~asked

\* Line 158 without `not self.technical_questions_asked`.
GeneratesQuestionsUnflagged(st, asked) == st = TECH_QUESTIONS

\* Line 158: the questions are generated in this turn.
GeneratesQuestions(st, asked) == st = TECH_QUESTIONS /\ ~asked

\* _handle_info_gathering with the provider's outcomes for its chat call and for
\* the question-generation call.  extracted.items() raises when "extracted" is
\* not a JSON object, and setattr raises inside the loop at a key it cannot
\* set: nothing after the raising line runs then, and what the loop merged
\* before it stays.
_handle_info_gathering(st, cand, asked, raw, chat, question) ==
    LET response == get_chat_response(chat)
        json == extract_json_from_response(response)
        is_mapping == HasExtracted(json) /\ json.extracted_type = "dict"
        merged == IF is_mapping THEN MergeExtracted(cand, json.extracted)
                  ELSE [candidate |-> cand, raised |-> FALSE]
        raises == (HasExtracted(json) /\ ~is_mapping) \/ merged.raised
        cand1 == merged.candidate
        st1 == AdvanceAfterMerge(st, json, cand1)
        clean == strip_json_from_response(response)
        gen == GeneratesQuestions(st1, asked)
        tech_questions == Render(generate_technical_questions(question))
    IN  IF raises
        THEN [raised |-> TRUE, state |-> st, candidate |-> cand1, asked |-> asked,
              raw |-> raw, response |-> <<>>, generated |-> FALSE]
        ELSE [raised |-> FALSE,
              state |-> IF gen THEN ANSWERING_QUESTIONS ELSE st1,
              candidate |-> cand1,
              asked |-> IF gen THEN TRUE ELSE asked,
              raw |-> IF gen THEN tech_questions ELSE raw,
              response |-> IF gen THEN RStrip(clean) \o << "\n", "\n" >> \o tech_questions
                           ELSE clean,
              generated |-> gen]

\* _handle_exit leaving the closing state instead.
ExitStateClosing == CLOSING

\* The state _handle_exit leaves (line 213).
ExitState == ENDED

\* The state _handle_closing leaves (line 196).
ClosingState == ENDED

\* generate_greeting without line 76.
GreetingStateStays == GREETING

\* The state generate_greeting leaves (line 76).
GreetingState == GATHERING_INFO

\* Routing with the else branch sent to the info-gathering handler.
RouteElseToGathering(st) ==
    CASE st \in {TECH_QUESTIONS, ANSWERING_QUESTIONS} -> "tech_interaction"
      [] st = CLOSING -> "closing"
      [] OTHER -> "info_gathering"

\* Routing with the technical phases sent to the info-gathering handler.
RouteTechToGathering(st) ==
    CASE st \in {GATHERING_INFO, TECH_QUESTIONS, ANSWERING_QUESTIONS} -> "info_gathering"
      [] st = CLOSING -> "closing"
      [] OTHER -> "fallback"

\* The handler process_message routes a non-exit message to (lines 104-111).
Route(st) ==
    CASE st = GATHERING_INFO -> "info_gathering"
      [] st \in {TECH_QUESTIONS, ANSWERING_QUESTIONS} -> "tech_interaction"
      [] st = CLOSING -> "closing"
      [] OTHER -> "fallback"

\* self.messages[-6:] (line 223): the last six entries.
LastSix(msgs) ==
    SubSeq(msgs, IF Len(msgs) > 6 THEN Len(msgs) - 5 ELSE 1, Len(msgs))

\* The `messages` argument of a handler's chat call: the transcript for info
\* gathering (line 132) and the technical phases (line 181), its tail for the
\* fallback (line 223), and one user entry holding the prompt for the greeting
\* (line 73), the closing (line 193) and the exit (line 210).
Context(path, msgs) ==
    CASE path \in { "info_gathering", "tech_interaction" } -> msgs
      [] path = "fallback" -> LastSix(msgs)
      [] OTHER -> << Message("user", << "<prompt>", path >>) >>

\* The model calls of a turn that repeats a chat call that failed.
CallsRetried(path, chat, generated) ==
    IF path \in { "greeting", "exit" }
    THEN IF chat.ok THEN << "chat" >> ELSE << "chat", "chat" >>
    ELSE << "sentiment", "chat" >>
         \o (IF chat.ok THEN <<>> ELSE << "chat" >>)
         \o (IF generated THEN << "questions" >> ELSE <<>>)

\* The model calls of a turn, in the order they are made: one chat call for
\* the greeting (line 72) and the exit (lines 98, 209); otherwise the sentiment
\* call (line 101), the handler's chat call (lines 104-111) and, when the
\* questions are generated, the question call (line 159).  No call is repeated
\* (llm_client.py lines 60-81).
Calls(path, chat, generated) ==
    IF path \in { "greeting", "exit" }
    THEN << "chat" >>
    ELSE << "sentiment", "chat" >>
         \o (IF generated THEN << "questions" >> ELSE <<>>)

\* _analyze_sentiment: the label of the facade's result.
_analyze_sentiment(outcome) == analyze_sentiment(outcome).sentiment

\* ----------------------------------------------------------------- actions

\* generate_greeting (lines 70-78)
GenerateGreeting ==
    /\ Len(messages) < MaxMessages
    /\ greetings < MaxGreetings
    /\ \E chat \in ChatOutcomes :
         LET response == Render(get_chat_response(chat))
         IN  /\ state' = GreetingState
             /\ messages' = AppendMessage(messages, "assistant", response)
             /\ greetings' = greetings + 1
             /\ last' = [NoCall EXCEPT !.op = "generate_greeting",
                                       !.path = "greeting",
                                       !.outcome = "returned",
                                       !.response = response,
                                       !.context = Context("greeting", messages),
                                       !.calls = Calls("greeting", chat, FALSE),
                                       !.chat = Called(chat)]
             /\ UNCHANGED << candidate, technical_questions_asked,
                             current_sentiment, raw_tech_questions,
                             question_calls, function_vars >>

\* The tag of the exit path computed anew: no mood is cached for it.
ExitTagNone(cached) == None

\* The tag process_message returns on the exit path (line 98): the cached mood.
ExitTag(cached) == cached

\* The exit path recording its response like every other path.
ExitTranscriptWithResponse(msgs, response) == AppendMessage(msgs, "assistant", response)

\* The transcript the exit path leaves: line 98 returns before line 114, so
\* the response is not recorded.
ExitTranscript(msgs, response) == msgs

\* process_message on the exit path (lines 97-98 and _handle_exit): the response
\* is returned with the cached mood and is not appended to the transcript.
ExitPath(msgs, user_message) ==
    \E chat \in ChatOutcomes :
        LET response == Render(get_chat_response(chat))
        IN  /\ state' = ExitState
            /\ messages' = ExitTranscript(msgs, response)
            /\ last' = [NoCall EXCEPT !.op = "process_message",
                                      !.user_message = user_message,
                                      !.path = "exit",
                                      !.outcome = "returned",
                                      !.response = response,
                                      !.tag = ExitTag(current_sentiment),
                                      !.context = Context("exit", msgs),
                                      !.calls = Calls("exit", chat, FALSE),
                                      !.chat = Called(chat)]
            /\ UNCHANGED << candidate, technical_questions_asked,
                            current_sentiment, raw_tech_questions, greetings,
                            question_calls >>

\* process_message routed to _handle_info_gathering (lines 101-105, 114-115).
InfoGatheringPath(msgs, user_message, sent, extractions) ==
    \E chat \in extractions, question \in QuestionOutcomes :
        LET label == _analyze_sentiment(sent)
            r == _handle_info_gathering(state, candidate, technical_questions_asked,
                                        raw_tech_questions, chat, question)
        IN  /\ r.generated \/ question = Failure
            /\ current_sentiment' = label
            /\ state' = r.state
            /\ candidate' = r.candidate
            /\ technical_questions_asked' = r.asked
            /\ raw_tech_questions' = r.raw
            /\ messages' = IF r.raised THEN msgs
                           ELSE AppendMessage(msgs, "assistant", r.response)
            /\ question_calls' = IF r.generated THEN question_calls + 1
                                 ELSE question_calls
            /\ last' = [NoCall EXCEPT !.op = "process_message",
                                      !.user_message = user_message,
                                      !.path = "info_gathering",
                                      !.outcome = IF r.raised THEN "raised" ELSE "returned",
                                      !.response = r.response,
                                      !.tag = IF r.raised THEN None ELSE label,
                                      !.context = Context("info_gathering", msgs),
                                      !.calls = Calls("info_gathering", chat,
                                                      r.generated),
                                      !.chat = Called(chat),
                                      !.sentiment_call = Called(sent),
                                      !.question_call =
                                          IF r.generated THEN Called(question) ELSE NotCalled]
            /\ UNCHANGED greetings

\* process_message routed to _handle_tech_interaction, _handle_closing or
\* _handle_fallback: one chat call, whose text is the response.
OtherPath(msgs, user_message, sent, path) ==
    \E chat \in ChatOutcomes :
        LET label == _analyze_sentiment(sent)
            response == Render(get_chat_response(chat))
        IN  /\ current_sentiment' = label
            /\ state' = IF path = "closing" THEN ClosingState ELSE state
            /\ messages' = AppendMessage(msgs, "assistant", response)
            /\ last' = [NoCall EXCEPT !.op = "process_message",
                                      !.user_message = user_message,
                                      !.path = path,
                                      !.outcome = "returned",
                                      !.response = response,
                                      !.tag = label,
                                      !.context = Context(path, msgs),
                                      !.calls = Calls(path, chat, FALSE),
                                      !.chat = Called(chat),
                                      !.sentiment_call = Called(sent)]
            /\ UNCHANGED << candidate, technical_questions_asked,
                            raw_tech_questions, greetings, question_calls >>

\* process_message (lines 80-115) on a text of `texts`, with the provider's
\* reply to the sentiment call in `sentiments` and to the info-gathering call in
\* `extractions`, while the transcript has fewer than `limit` entries.
ProcessMessageWithin(limit, texts, sentiments, extractions) ==
    /\ Len(messages) < limit
    /\ UNCHANGED function_vars
    /\ \E text \in texts :
         LET user_message == sanitize_input(text)
             msgs == AppendMessage(messages, "user", user_message)
         IN  IF check_exit_intent(user_message, EXIT_KEYWORDS)
             THEN ExitPath(msgs, user_message)
             ELSE \E sent \in sentiments :
                    IF Route(state) = "info_gathering"
                    THEN InfoGatheringPath(msgs, user_message, sent, extractions)
                    ELSE OtherPath(msgs, user_message, sent, Route(state))

\* process_message while the transcript has fewer than MaxMessages entries.
ProcessMessageOn(texts, sentiments, extractions) ==
    ProcessMessageWithin(MaxMessages, texts, sentiments, extractions)

\* process_message under every kind of reply to the info-gathering call, the
\* sentiment call failing (its replies are varied by process_message_moods).
process_message ==
    /\ ProcessMessageOn(UserTexts, {Failure}, ExtractionOutcomes)
    /\ UNCHANGED app_vars

\* generate_greeting called on the engine alone.
generate_greeting == GenerateGreeting /\ UNCHANGED app_vars

Next == generate_greeting \/ process_message

Spec == Init /\ [][Next]_vars

\* The engine under every kind of reply to the sentiment call.
process_message_moods ==
    /\ ProcessMessageOn(UserTexts, SentimentReplies, FewExtractionOutcomes)
    /\ UNCHANGED app_vars

NextMoods == generate_greeting \/ process_message_moods

SpecMoods == Init /\ [][NextMoods]_vars

\* The engine on longer transcripts, with the sentiment call failing and the
\* info-gathering call failing, giving no block, or filling the profile: long
\* enough for a second greeting after the questions and two more messages.
MaxLongMessages == 7

process_message_long ==
    /\ ProcessMessageWithin(MaxLongMessages, UserTexts, {Failure},
                            FewExtractionOutcomes)
    /\ UNCHANGED app_vars

NextLong == generate_greeting \/ process_message_long

SpecLong == Init /\ [][NextLong]_vars

\* Replies to the info-gathering call whose "extracted" object has keys that
\* are no fields, with either mark; the text before the block has a run of
\* three newlines.
OtherKeyOutcomes ==
    { Returned([body |-> << "Got", "\n", "\n", "\n", "it." >>,
                block |-> [kind |-> "mapping", extracted |-> m, all_collected |-> a]]) :
        m \in OtherKeyMappings, a \in {"false", "true"} }

\* The engine under replies whose "extracted" object has keys that are no
\* fields, next to a failing call, a reply without a block, a block whose
\* "extracted" is null and a block that fills the profile.
process_message_keys ==
    /\ ProcessMessageOn(UserTexts, {Failure},
                        FewExtractionOutcomes \cup OtherKeyOutcomes)
    /\ UNCHANGED app_vars

NextKeys == generate_greeting \/ process_message_keys

SpecKeys == Init /\ [][NextKeys]_vars

\* sanitize_input on texts around the length limit: a text is an optional
\* head with leading and inner whitespace (a tab, a carriage return, a newline,
\* a no-break space), a run of "a" that is empty or within
\* MaxTail of the limit, and up to MaxTail characters of " " and "b".
Pad(n) == [i \in 1..n |-> "a"]

RECURSIVE TextsUpTo(_)
TextsUpTo(n) ==
    IF n = 0 THEN { <<>> }
    ELSE TextsUpTo(n - 1) \cup
         { Append(t, c) : t \in TextsUpTo(n - 1), c \in {" ", "b"} }

SanitizeInputs ==
    { head \o Pad(n) \o tail :
        head \in { <<>>, << "\t", "b", "\r", "\n", "<U+00A0>" >> },
        n \in {0} \cup ((MAX_INPUT_LENGTH - MaxTail)..MAX_INPUT_LENGTH),
        tail \in TextsUpTo(MaxTail) }

InitSanitize ==
    /\ EngineInit
    /\ NoApp
    /\ arg \in SanitizeInputs
    /\ result = NoResult

\* sanitize_input applied to the text, and again to what it gave.
ApplySanitize ==
    /\ ~result.done
    /\ result' = [done |-> TRUE,
                  once |-> sanitize_input(arg),
                  twice |-> sanitize_input(sanitize_input(arg))]
    /\ UNCHANGED << arg, engine_vars, app_vars >>

\* process_message on the text (its sentiment call failing).
process_message_arg ==
    /\ ProcessMessageOn({arg}, {Failure}, {Failure})
    /\ UNCHANGED app_vars

NextSanitize == ApplySanitize \/ process_message_arg

SpecSanitize == InitSanitize /\ [][NextSanitize]_vars

\* ----------------------------------------------- check_exit_intent alone

\* Every text of at most n characters of "B", "y", "e" and " ".
RECURSIVE ExitTextsUpTo(_)
ExitTextsUpTo(n) ==
    IF n = 0 THEN { <<>> }
    ELSE ExitTextsUpTo(n - 1) \cup
         { Append(t, c) : t \in ExitTextsUpTo(n - 1), c \in {"B", "y", "e", " "} }

\* Keyword sets: none, one keyword, two short keywords, the empty keyword,
\* keywords that lowered characters outside ASCII begin with or end in, and
\* the configured set.
KeywordSets ==
    { {},
      { <<"b", "y", "e">> },
      { <<"e">>, <<"b", "y">> },
      { <<>> },
      { << "i" >>, << "<U+00E9>", "n", "d" >>, << "<U+00E4>" >>,
        << "b", "y", "e", "<U+03C2>" >> },
      EXIT_KEYWORDS }

\* Messages with characters outside ASCII: "thanKs bye" written with the Kelvin
\* sign, "bye" between a carriage return and a form feed and a line tabulation,
\* "Im done" and "I" written with capital I with dot above, "E" written with
\* E acute followed by "nd", capital A with diaeresis, and "BYE" followed by a
\* capital sigma, at the end, before a full stop and before another letter.
SpecialExitTexts ==
    { << "t", "h", "a", "n", "<U+212A>", "s", " ", "b", "y", "e" >>,
      << "\r", "\f", "B", "Y", "E", "<U+000B>" >>,
      << "<U+0130>", "m", " ", "d", "o", "n", "e" >>,
      << "<U+0130>" >>,
      << "<U+00C9>", "n", "d" >>,
      << "<U+00C4>" >>,
      << "B", "Y", "E", "<U+03A3>" >>,
      << "B", "Y", "E", "<U+03A3>", "." >>,
      << "B", "Y", "E", "<U+03A3>", "s" >> }

ExitMessages == ExitTextsUpTo(MaxTextLen) \cup SpecialExitTexts

InitExitIntent ==
    /\ EngineInit
    /\ NoApp
    /\ arg \in [message : ExitMessages, exit_keywords : KeywordSets]
    /\ result = NoResult

\* check_exit_intent applied to the message and the keyword set.
ApplyExitIntent ==
    /\ ~result.done
    /\ result' = [done |-> TRUE,
                  value |-> check_exit_intent(arg.message, arg.exit_keywords)]
    /\ UNCHANGED << arg, engine_vars, app_vars >>

NextExitIntent == ApplyExitIntent

SpecExitIntent == InitExitIntent /\ [][NextExitIntent]_vars

\* ------------------- the JSON block functions on the text of a reply (utils.py)

\* The text of a reply as tokens: "<fence>" stands for the three backticks of a
\* code fence and "json" for the word after an opening fence; "{", "}", ":" and
\* "," are JSON punctuation, "\"extracted\"" and "\"a\"" JSON strings, "1" a
\* JSON number, "Ok" and "x" prose, " ", "\n", "\r" and "\f" whitespace.
FENCE == "<fence>"

JsonStrings == { "\"extracted\"", "\"a\"" }

At(text, i) == IF i \in 1..Len(text) THEN text[i] ELSE "<end>"

Min(S) == CHOOSE x \in S : \A y \in S : x <= y

\* \s* from position i <= Len(text) + 1: the position of the next token that is
\* no whitespace.
SkipSpace(text, i) ==
    Min({ j \in i..(Len(text) + 1) : At(text, j) \notin Whitespace })

NoMatch == [found |-> FALSE, start |-> 0, open |-> 0, close |-> 0, stop |-> 0]

\* The match of ```json\s*(\{.*?\})\s*``` that starts at token i: the lazy .*?
\* ends at the first "}" that whitespace and a fence follow.  The braces are at
\* open and close, the match is start..stop.
FencedAt(text, i) ==
    IF At(text, i) = FENCE /\ At(text, i + 1) = "json"
    THEN LET open == SkipSpace(text, i + 2)
             closes == { k \in (open + 1)..Len(text) :
                           /\ text[k] = "}"
                           /\ At(text, SkipSpace(text, k + 1)) = FENCE }
         IN  IF At(text, open) = "{" /\ closes # {}
             THEN [found |-> TRUE, start |-> i, open |-> open,
                   close |-> Min(closes),
                   stop |-> SkipSpace(text, Min(closes) + 1)]
             ELSE NoMatch
    ELSE NoMatch

\* re.search: the leftmost match.
SearchFenced(text) ==
    LET starts == { i \in 1..Len(text) : FencedAt(text, i).found }
    IN  IF starts = {} THEN NoMatch ELSE FencedAt(text, Min(starts))

\* The match of \{[^{}]*"extracted"[^{}]*\{.*?\}.*?\} that starts at token i:
\* the next brace after i opens an object, "extracted" stands in between, and
\* the match ends at the second "}" after that brace.
RawAt(text, i) ==
    LET braces == { m \in (i + 1)..Len(text) : text[m] \in {"{", "}"} }
        inner == Min(braces)
        closes == { k \in (inner + 1)..Len(text) : text[k] = "}" }
        last_close == Min(closes \ { Min(closes) })
    IN  IF /\ At(text, i) = "{"
           /\ braces # {}
           /\ text[inner] = "{"
           /\ \E x \in (i + 1)..(inner - 1) : text[x] = "\"extracted\""
           /\ Cardinality(closes) >= 2
        THEN [found |-> TRUE, start |-> i, open |-> i,
              close |-> last_close, stop |-> last_close]
        ELSE NoMatch

SearchRaw(text) ==
    LET starts == { i \in 1..Len(text) : RawAt(text, i).found }
    IN  IF starts = {} THEN NoMatch ELSE RawAt(text, Min(starts))

\* The whitespace json.loads allows between the tokens of a value.
JsonSpace == { " ", "\t", "\n", "\r" }

SkipJsonSpace(text, i) ==
    Min({ j \in i..(Len(text) + 1) : At(text, j) \notin JsonSpace })

\* json.loads on an object: the position after the value that starts at token i,
\* or 0 when the tokens from i are no JSON value.
RECURSIVE JsonValueEnd(_, _)
RECURSIVE JsonMembersEnd(_, _)
JsonMembersEnd(text, i) ==
    LET colon == SkipJsonSpace(text, i + 1)
        value == SkipJsonSpace(text, colon + 1)
        after == JsonValueEnd(text, value)
        next == SkipJsonSpace(text, after)
    IN  IF At(text, i) \notin JsonStrings \/ At(text, colon) # ":" THEN 0
        ELSE IF after = 0 THEN 0
        ELSE IF At(text, next) = "}" THEN next + 1
        ELSE IF At(text, next) = "," /\ next < Len(text)
             THEN JsonMembersEnd(text, SkipJsonSpace(text, next + 1))
        ELSE 0

JsonValueEnd(text, i) ==
    IF At(text, i) \in JsonStrings \cup { "1" } THEN i + 1
    ELSE IF At(text, i) = "{"
         THEN LET first == SkipJsonSpace(text, i + 1)
              IN  IF At(text, first) = "}" THEN first + 1
                  ELSE JsonMembersEnd(text, first)
    ELSE 0

\* json.loads(text) returns: text is one JSON value, here an object.
JsonLoads(text) == JsonValueEnd(text, 1) = Len(text) + 1

\* extract_json_from_response on the text: the fenced block when the leftmost
\* one parses, else the raw object when it parses, else None.
extract_json_from_text(text) ==
    LET fenced == SearchFenced(text)
        raw == SearchRaw(text)
        block == SubSeq(text, fenced.open, fenced.close)
        object == SubSeq(text, raw.open, raw.close)
    IN  IF fenced.found /\ JsonLoads(block) THEN [found |-> TRUE, json |-> block]
        ELSE IF raw.found /\ JsonLoads(object) THEN [found |-> TRUE, json |-> object]
        ELSE [found |-> FALSE, json |-> <<>>]

\* re.sub of the fenced pattern with '': every match, left to right.
RECURSIVE RemoveFenced(_)
RemoveFenced(text) ==
    LET m == SearchFenced(text)
    IN  IF ~m.found THEN text
        ELSE SubSeq(text, 1, m.start - 1)
             \o RemoveFenced(SubSeq(text, m.stop + 1, Len(text)))

\* re.sub of the raw pattern with ''.
RECURSIVE RemoveRaw(_)
RemoveRaw(text) ==
    LET m == SearchRaw(text)
    IN  IF ~m.found THEN text
        ELSE SubSeq(text, 1, m.start - 1)
             \o RemoveRaw(SubSeq(text, m.stop + 1, Len(text)))

\* strip_json_from_response on the text.
strip_json_from_text(text) ==
    CollapseNewlines(Strip(RemoveRaw(RemoveFenced(text))))

\* The parts a reply is put together from: prose, prose with braces, a raw
\* object, fenced blocks (an "extracted" object, one with nesting, one that is
\* no JSON, one never closed), raw "extracted" objects (parsing, and nested too
\* deep for the pattern), a lone brace and blank lines.
ReplyParts ==
    { << "Ok", " " >>,
      << "Ok", " ", "{", "x", "}", "\n" >>,
      << "{", "\"a\"", ":", " ", "1", "}" >>,
      << FENCE, "json", "\r", "\n", "{", "\"extracted\"", ":", " ", "{", "}", "}", "\f",
         FENCE >>,
      << FENCE, "json", " ", "{", "\"extracted\"", ":", "{", "\"a\"", ":", "{", "}", "}",
         ",", "\"a\"", ":", "1", "}", FENCE >>,
      << FENCE, "json", "{", "x", "}", FENCE >>,
      << FENCE, "json", " ", "{", "\"a\"", ":", "1", " " >>,
      << "{", "\"extracted\"", ":", " ", "{", "\"a\"", ":", "1", "}", ",", " ",
         "\"a\"", ":", "1", "}" >>,
      << "{", "\"extracted\"", ":", "{", "\"a\"", ":", "{", "}", "}", "}" >>,
      << "}" >>,
      << "\n", "\n", "\n" >> }

RECURSIVE Replies(_)
Replies(n) ==
    IF n = 0 THEN { <<>> }
    ELSE Replies(n - 1) \cup { r \o p : r \in Replies(n - 1), p \in ReplyParts }

InitJsonBlock ==
    /\ EngineInit
    /\ NoApp
    /\ arg \in Replies(MaxParts)
    /\ result = NoResult

\* extract_json_from_response and strip_json_from_response applied to the reply.
ApplyJsonBlock ==
    /\ ~result.done
    /\ result' = [done |-> TRUE,
                  extracted |-> extract_json_from_text(arg),
                  stripped |-> strip_json_from_text(arg)]
    /\ UNCHANGED << arg, engine_vars, app_vars >>

NextJsonBlock == ApplyJsonBlock

SpecJsonBlock == InitJsonBlock /\ [][NextJsonBlock]_vars

\* ------------------------------------ parse_technical_questions (utils.py)

\* A text is a sequence of one-character tokens; "<diamond>" stands for the
\* small blue diamond of the headers and "<bullet>" for the bullet character.
DIAMOND == "<diamond>"

BULLET == "<bullet>"

\* [\d]: a decimal digit of any script (category Nd, Unicode 15), as runs
\* << first, last >> of code points.
Digits ==
    TokensOf(
    << << 48, 57 >>, << 1632, 1641 >>, << 1776, 1785 >>, << 1984, 1993 >>, << 2406, 2415 >>,
      << 2534, 2543 >>, << 2662, 2671 >>, << 2790, 2799 >>, << 2918, 2927 >>, << 3046, 3055 >>,
      << 3174, 3183 >>, << 3302, 3311 >>, << 3430, 3439 >>, << 3558, 3567 >>, << 3664, 3673 >>,
      << 3792, 3801 >>, << 3872, 3881 >>, << 4160, 4169 >>, << 4240, 4249 >>, << 6112, 6121 >>,
      << 6160, 6169 >>, << 6470, 6479 >>, << 6608, 6617 >>, << 6784, 6793 >>, << 6800, 6809 >>,
      << 6992, 7001 >>, << 7088, 7097 >>, << 7232, 7241 >>, << 7248, 7257 >>, << 42528, 42537 >>,
      << 43216, 43225 >>, << 43264, 43273 >>, << 43472, 43481 >>, << 43504, 43513 >>, << 43600, 43609 >>,
      << 44016, 44025 >>, << 65296, 65305 >>, << 66720, 66729 >>, << 68912, 68921 >>, << 69734, 69743 >>,
      << 69872, 69881 >>, << 69942, 69951 >>, << 70096, 70105 >>, << 70384, 70393 >>, << 70736, 70745 >>,
      << 70864, 70873 >>, << 71248, 71257 >>, << 71360, 71369 >>, << 71472, 71481 >>, << 71904, 71913 >>,
      << 72016, 72025 >>, << 72784, 72793 >>, << 73040, 73049 >>, << 73120, 73129 >>, << 73552, 73561 >>,
      << 92768, 92777 >>, << 92864, 92873 >>, << 93008, 93017 >>, << 120782, 120831 >>, << 123200, 123209 >>,
      << 123632, 123641 >>, << 124144, 124153 >>, << 125264, 125273 >>, << 130032, 130041 >> >>)

\* A greedy run of characters of `chars` from position i <= Len(text) + 1: the
\* position of the next character outside it.
SkipOver(text, i, chars) ==
    Min({ j \in i..(Len(text) + 1) : At(text, j) \notin chars })

\* response.split('\n')
RECURSIVE SplitLines(_)
SplitLines(text) ==
    LET breaks == { i \in 1..Len(text) : text[i] = "\n" }
    IN  IF breaks = {} THEN << text >>
        ELSE << SubSeq(text, 1, Min(breaks) - 1) >>
             \o SplitLines(SubSeq(text, Min(breaks) + 1, Len(text)))

\* str.strip('🔹')
RECURSIVE StripDiamonds(_)
StripDiamonds(text) ==
    IF text # <<>> /\ Head(text) = DIAMOND THEN StripDiamonds(Tail(text))
    ELSE IF text # <<>> /\ text[Len(text)] = DIAMOND
         THEN StripDiamonds(SubSeq(text, 1, Len(text) - 1))
    ELSE text

\* The rest of a line from position s matches \s*\]?\s*\**\s*$.
HeaderTail(line, s) ==
    LET bracket == SkipSpace(line, s)
        stars == SkipSpace(line, IF At(line, bracket) = "]" THEN bracket + 1 ELSE bracket)
    IN  SkipSpace(line, SkipOver(line, stars, {"*"})) = Len(line) + 1

\* Group 1 of ^#{1,4}\s*[🔹\*]*\s*\[?\s*(.+?)\s*\]?\s*\**\s*$ on a trimmed line
\* that it matches: the greedy prefix, then the shortest text the tail pattern
\* can follow; when the prefix takes the whole line, its last character.
HashHeaderGroup(line) ==
    LET hashes == SkipOver(line, 1, {"#"})
        marks == SkipSpace(line, IF hashes > 5 THEN 5 ELSE hashes)
        bracket == SkipSpace(line, SkipOver(line, marks, {DIAMOND, "*"}))
        from == SkipSpace(line, IF At(line, bracket) = "[" THEN bracket + 1 ELSE bracket)
    IN  IF from > Len(line) THEN << line[Len(line)] >>
        ELSE SubSeq(line, from,
                    Min({ e \in from..Len(line) : HeaderTail(line, e + 1) }))

NoHeader == [match |-> FALSE, group |-> <<>>]

\* The two header patterns (lines 232-236) on a trimmed, non-empty line.
TechMatch(line) ==
    IF line[1] = "#" /\ Len(line) >= 2
    THEN [match |-> TRUE, group |-> HashHeaderGroup(line)]
    ELSE IF /\ Len(line) >= 5
            /\ line[1] = "*" /\ line[2] = "*"
            /\ line[Len(line) - 1] = "*" /\ line[Len(line)] = "*"
         THEN [match |-> TRUE, group |-> SubSeq(line, 3, Len(line) - 2)]
    ELSE NoHeader

\* tech_match.group(1).strip().strip('🔹').strip()
TechName(group) == Strip(StripDiamonds(Strip(group)))

\* The two question patterns (lines 249-251) on a trimmed, non-empty line:
\* digits and "." or ")", or "-" or the bullet, then the text.
QuestionMatch(line) ==
    LET mark == SkipOver(line, 1, Digits)
        numbered == mark > 1 /\ At(line, mark) \in {".", ")"}
        bulleted == line[1] \in {"-", BULLET}
        from == SkipSpace(line, IF numbered THEN mark + 1 ELSE 2)
    IN  IF (numbered \/ bulleted) /\ from <= Len(line)
        THEN [match |-> TRUE, group |-> SubSeq(line, from, Len(line))]
        ELSE NoHeader

\* Line 255 with the bound included: ten characters are enough.
KeepsQuestionFromTen(question) == Len(question) >= 10

\* Line 255: `question and len(question) > 10`.
KeepsQuestion(question) == Len(question) > 10

\* Lines 239-243 without `and current_questions`.
FlushAlways(groups, tech, questions) ==
    IF tech # <<>>
    THEN Append(groups, [technology |-> tech, questions |-> questions])
    ELSE groups

\* Lines 239-243 and 257-261: the group is appended when the technology has a
\* name and at least one question.  No technology (None) and the empty name are
\* both <<>>.
Flush(groups, tech, questions) ==
    IF tech # <<>> /\ questions # <<>>
    THEN Append(groups, [technology |-> tech, questions |-> questions])
    ELSE groups

\* The loop of lines 225-256 from line i on.
RECURSIVE ScanLines(_, _, _, _, _)
ScanLines(lines, i, groups, tech, questions) ==
    IF i > Len(lines) THEN Flush(groups, tech, questions)
    ELSE LET line == Strip(lines[i])
         IN  IF line = <<>> THEN ScanLines(lines, i + 1, groups, tech, questions)
             ELSE IF TechMatch(line).match
                  THEN ScanLines(lines, i + 1, Flush(groups, tech, questions),
                                 TechName(TechMatch(line).group), <<>>)
             ELSE IF /\ QuestionMatch(line).match
                     /\ tech # <<>>
                     /\ KeepsQuestion(Strip(QuestionMatch(line).group))
                  THEN ScanLines(lines, i + 1, groups, tech,
                                 Append(questions, Strip(QuestionMatch(line).group)))
             ELSE ScanLines(lines, i + 1, groups, tech, questions)

parse_technical_questions(response) ==
    ScanLines(SplitLines(response), 1, <<>>, <<>>, <<>>)

\* Texts of 11 and of 10 characters.
LongText == << "W", "h", "a", "t", " ", "i", "s", " ", "G", "I", "L" >>

TenText == SubSeq(LongText, 1, 10)

\* The lines a text is made of: headers (plain, bold, without a name, wrapped in
\* brackets and stars), questions (numbered, bulleted, indented and numbered
\* with a Devanagari digit before a carriage return, of ten characters), and
\* lines that are neither.
QuestionLines ==
    { << "#", "#", "#", " ", "P", "y" >>,
      << "*", "*", "G", "o", "*", "*" >>,
      << "#", "#", "#", " ", DIAMOND >>,
      << "#", " ", "[", DIAMOND, " ", "P", "y", "]", " ", "*", "*" >>,
      << "1", "." >> \o << " " >> \o LongText,
      << "2", ")" >> \o << " " >> \o TenText,
      << "-", " " >> \o LongText,
      << BULLET >> \o LongText,
      << " ", "1", "<U+0967>", "." >> \o LongText \o << "\r" >>,
      << "*", " " >> \o LongText,
      LongText,
      << " " >> }

\* The texts of up to n lines, each line one of `lines`.
RECURSIVE TextsOf(_, _)
TextsOf(lines, n) ==
    IF n = 1 THEN lines
    ELSE TextsOf(lines, n - 1) \cup
         { t \o << "\n" >> \o l : t \in TextsOf(lines, n - 1), l \in lines }

QuestionTexts(n) == TextsOf(QuestionLines, n)

\* Another text of 11 characters.
OtherText == << "W", "h", "y", " ", "u", "s", "e", " ", "G", "o", "?" >>

\* The lines the longer texts are made of: two headers with a name and one
\* without, and two questions with different texts.
GroupLines ==
    { << "#", "#", "#", " ", "P", "y" >>,
      << "*", "*", "G", "o", "*", "*" >>,
      << "#", "#", "#", " ", DIAMOND >>,
      << "1", ".", " " >> \o LongText,
      << "-", " " >> \o OtherText }

GroupTexts(n) == TextsOf(GroupLines, n)

InitQuestions ==
    /\ EngineInit
    /\ NoApp
    /\ arg \in QuestionTexts(MaxLines) \cup GroupTexts(MaxGroupLines)
    /\ result = NoResult

\* parse_technical_questions applied to the text.
ApplyParseQuestions ==
    /\ ~result.done
    /\ result' = [done |-> TRUE, value |-> parse_technical_questions(arg)]
    /\ UNCHANGED << arg, engine_vars, app_vars >>

NextQuestions == ApplyParseQuestions

SpecQuestions == InitQuestions /\ [][NextQuestions]_vars

\* ------------------------------------------------------------------ app.py

\* The engines one session may discard with "New Chat".
MaxResets == 1

\* A key that is None or the empty text: `or` and `not` take the two alike.
NoKey == <<>>

\* GROQ_API_KEY of config.py (line 14): unset, or a key.
EnvKeys == { NoKey, << "g", "s", "k" >> }

\* What is typed into the key field: nothing, a blank, or a key.
TypedKeys == { <<>>, << " " >>, << "g", "s", "k" >> }

\* Python's `a or b` on an optional text.
Or(a, b) == IF a = NoKey THEN b ELSE a

\* LLMClient.__init__ that accepts a missing key.
LLMClientLenient(api_key, env) == [ok |-> TRUE, api_key |-> Or(api_key, env)]

\* LLMClient.__init__ (llm_client.py, lines 25-39): ok is FALSE when it raises
\* ValueError.
LLMClient(api_key, env) ==
    LET key == Or(api_key, env)
    IN  [ok |-> key # NoKey, api_key |-> key]

\* ConversationManager.__init__ whose transcript is the list of the engine
\* before it.
ConversationManagerShared(llm) ==
    [state |-> GREETING, candidate |-> EmptyCandidate, messages |-> messages,
     technical_questions_asked |-> FALSE, current_sentiment |-> "neutral",
     raw_tech_questions |-> <<>>]

\* ConversationManager.__init__ (conversation.py): the fields of a new engine.
ConversationManager(llm) ==
    [state |-> GREETING, candidate |-> EmptyCandidate, messages |-> <<>>,
     technical_questions_asked |-> FALSE, current_sentiment |-> "neutral",
     raw_tech_questions |-> <<>>]

\* Whether start_conversation(api_key) returns True.
StartReturns(api_key) == LLMClient(Or(api_key, page.env_key), page.env_key).ok

\* The session after start_conversation has built its engine (lines 313-321).
StartedSession(s) ==
    [s EXCEPT !.conversation_manager = TRUE, !.api_key_set = TRUE,
              !.initialized = TRUE, !.greeting_sent = FALSE,
              !.parsed_questions = <<>>, !.questions_submitted = FALSE]

\* start_conversation (lines 308-324): a new engine in the session, or nothing
\* when the facade cannot be built.
start_conversation(api_key) ==
    LET key == Or(api_key, page.env_key)
        llm == LLMClient(key, page.env_key)
        cm == ConversationManager(llm)
    IN  IF llm.ok
        THEN /\ state' = cm.state
             /\ candidate' = cm.candidate
             /\ messages' = cm.messages
             /\ technical_questions_asked' = cm.technical_questions_asked
             /\ current_sentiment' = cm.current_sentiment
             /\ raw_tech_questions' = cm.raw_tech_questions
             /\ greetings' = 0
             /\ question_calls' = 0
             /\ last' = NoCall
             /\ session' = StartedSession(session)
        ELSE UNCHANGED << engine_vars, session >>

\* What the construction of the facade in start_conversation(api_key) gives.
Constructed(api_key) == IF StartReturns(api_key) THEN "ok" ELSE "failed"

\* reset_conversation (lines 327-336)
reset_conversation ==
    [initialized |-> FALSE, api_key_set |-> FALSE, conversation_manager |-> FALSE,
     greeting_sent |-> FALSE, parsed_questions |-> <<>>,
     questions_submitted |-> FALSE]

\* is_ended that never reports the end.
is_ended_never(st) == FALSE

\* ConversationManager.is_ended (conversation.py, lines 252-254)
is_ended(st) == st = ENDED

\* show_question_form of main (lines 618-623)
show_question_form ==
    /\ state \in { TECH_QUESTIONS, ANSWERING_QUESTIONS }
    /\ session.parsed_questions # <<>>
    /\ ~session.questions_submitted

\* The session after the greeting, without the mark of line 608.
GreetedSessionUnmarked(s) == s

\* The session after the greeting (line 608).
GreetedSession(s) == [s EXCEPT !.greeting_sent = TRUE]

\* What is typed into an answer box: nothing, a blank, or an answer.
TypedAnswers == { << >>, << " " >>, << "4", "2" >> }

\* str(n) for n >= 0
RECURSIVE Decimal(_)
Decimal(n) ==
    LET digit == << "0", "1", "2", "3", "4", "5", "6", "7", "8", "9" >>[(n % 10) + 1]
    IN  IF n < 10 THEN << digit >> ELSE Decimal(n \div 10) \o << digit >>

\* The key of one answer in all_answers (line 506): "<tech> - Q<i>: <question>".
AnswerLabel(tech_name, i, question) ==
    tech_name \o << " ", "-", " ", "Q" >> \o Decimal(i) \o << ":", " " >> \o question

\* The key of the answer box of question i of a group (line 492):
\* "<tech>_<i - 1>".
WidgetKey(tech_name, i) == tech_name \o << "_" >> \o Decimal(i - 1)

\* The boxes of the form in the order they are rendered (lines 483-506), from
\* group g on: each with its widget key and its key in all_answers.
RECURSIVE AnswerLabels(_, _)
AnswerLabels(questions, g) ==
    IF g > Len(questions) THEN << >>
    ELSE [i \in 1..Len(questions[g].questions) |->
             [widget |-> WidgetKey(questions[g].technology, i),
              label |-> AnswerLabel(questions[g].technology, i,
                                    questions[g].questions[i])]]
         \o AnswerLabels(questions, g + 1)

\* The form is rendered when no two boxes have the same widget key; st.text_area
\* raises at the second box of a key, before the submit button.
FormRenders(questions) ==
    LET boxes == AnswerLabels(questions, 1)
    IN  \A i, j \in DOMAIN boxes : boxes[i].widget = boxes[j].widget => i = j

\* What the boxes of the form can hold: one text for each box.
AnswerSheets(questions) == [1..Len(AnswerLabels(questions, 1)) -> TypedAnswers]

\* all_answers (lines 481, 506), a dict filled box by box: its items in the
\* order their keys were first set, each key with the answer of the last box
\* that has it.
AllAnswers(questions, answers) ==
    LET boxes == AnswerLabels(questions, 1)
        first(i) == \A j \in 1..(i - 1) : boxes[j].label # boxes[i].label
        last_box(i) == CHOOSE j \in i..Len(boxes) :
                           /\ boxes[j].label = boxes[i].label
                           /\ \A k \in (j + 1)..Len(boxes) : boxes[k].label # boxes[i].label
        kept == SelectSeq([i \in 1..Len(boxes) |-> i], first)
    IN  [k \in 1..Len(kept) |-> << boxes[kept[k]].label, answers[last_box(kept[k])] >>]

\* Lines 517-521 for one item: the key in bold, then the answer, or a note when
\* the answer is blank.
AnswerEntry(q_label, answer) ==
    << "*", "*" >> \o q_label \o << "*", "*", "\n" >>
    \o (IF Strip(answer) # << >> THEN answer
        ELSE << "_", "N", "o", " ", "a", "n", "s", "w", "e", "r", " ", "p", "r", "o", "v", "i", "d", "e", "d", "_" >>)
    \o << "\n", "\n" >>

RECURSIVE AnswerEntries(_, _)
AnswerEntries(all_answers, i) ==
    IF i > Len(all_answers) THEN << >>
    ELSE AnswerEntry(all_answers[i][1], all_answers[i][2])
         \o AnswerEntries(all_answers, i + 1)

\* has_answers of render_question_form (lines 515-519): some answer of
\* all_answers is not blank.
HasAnswers(all_answers) ==
    \E i \in DOMAIN all_answers : Strip(all_answers[i][2]) # << >>

\* answers_text of render_question_form (lines 514-521): the opening words,
\* then every item of all_answers.
AnswersText(all_answers) ==
    << "H", "e", "r", "e", " ", "a", "r", "e", " ", "m", "y", " ", "a", "n", "s", "w", "e", "r", "s", " ", "t", "o", " ", "t", "h", "e",
       " ", "t", "e", "c", "h", "n", "i", "c", "a", "l", " ", "q", "u", "e", "s", "t", "i", "o", "n", "s", ":", "\n", "\n" >>
    \o AnswerEntries(all_answers, 1)

\* main, lines 563-591, on its first pass with no key accepted yet: with a key
\* in the environment it builds the engine and goes on, without one it shows the
\* key form and returns. Lines 594-596 end the run if no engine was built.
RunSetup ==
    /\ page.running
    /\ page.at = "top"
    /\ ~session.api_key_set
    /\ IF page.env_key # NoKey
       THEN /\ start_conversation(NoKey)
            /\ page' = [page EXCEPT !.running = StartReturns(NoKey),
                                    !.event = "start",
                                    !.key = Or(NoKey, page.env_key),
                                    !.construct = Constructed(NoKey)]
       ELSE /\ page' = [page EXCEPT !.running = FALSE,
                                    !.body = "key_form",
                                    !.event = "setup"]
            /\ UNCHANGED << engine_vars, session >>
    /\ UNCHANGED function_vars

\* "Start Screening" (lines 585-590) with what was typed into the key field.
StartScreening ==
    /\ ~page.running
    /\ page.body = "key_form"
    /\ ~session.api_key_set
    /\ \E typed \in TypedKeys :
         LET api_key == Strip(typed)
         IN  IF api_key # NoKey
             THEN /\ start_conversation(api_key)
                  /\ page' = [page EXCEPT !.running = StartReturns(api_key),
                                          !.event = "start",
                                          !.key = Or(api_key, page.env_key),
                                          !.construct = Constructed(api_key)]
             ELSE /\ page' = [page EXCEPT !.event = "warning"]
                  /\ UNCHANGED << engine_vars, session >>
    /\ UNCHANGED function_vars

\* main, lines 601-609, in a run that gets past st.spinner (line 602): the
\* greeting of an engine that has none yet, then a rerun.  Nothing between
\* generate_greeting (603) and st.rerun() (609) renders an element.
Greet ==
    /\ page.running
    /\ page.at = "top"
    /\ session.api_key_set
    /\ session.conversation_manager
    /\ ~session.greeting_sent
    /\ GenerateGreeting
    /\ session' = GreetedSession(session)
    /\ page' = [page EXCEPT !.event = "greeting"]

\* The run of an engine without a greeting ends before generate_greeting:
\* st.spinner (line 602), like the element calls before it (552-559), hands
\* control to a rerun or stop request that is waiting, and lines 603-609 never
\* run.  The session keeps its engine and no greeting mark; what follows is a
\* run from the top (rerun = TRUE) or the script at rest.
StopAtSpinner ==
    /\ page.running
    /\ page.at = "top"
    /\ session.api_key_set
    /\ session.conversation_manager
    /\ ~session.greeting_sent
    /\ \E rerun \in BOOLEAN :
         page' = [page EXCEPT !.running = rerun, !.event = "interrupted"]
    /\ UNCHANGED << engine_vars, session, function_vars >>

\* The user asks for a rerun while the script is at rest and the session has
\* an engine: the script runs from the top, to the greeting when the engine has
\* none (601) and to the page otherwise (612).  Without an engine a rerun shows
\* the key form again.
Rerun ==
    /\ ~page.running
    /\ session.conversation_manager
    /\ page' = [page EXCEPT !.running = TRUE, !.at = "top", !.event = "rerun"]
    /\ UNCHANGED << engine_vars, session, function_vars >>

\* main, lines 612-634, when nothing was entered: the history and one of the
\* question form, the closing notice and the chat input.  A form with two boxes
\* of one widget key raises while it is rendered: the run ends there, with no
\* submit button and no chat input.
RenderPage ==
    /\ page.running
    /\ page.at = "top"
    /\ session.api_key_set
    /\ session.conversation_manager
    /\ session.greeting_sent
    /\ page' = [page EXCEPT !.running = FALSE,
                            !.event = "render",
                            !.body = IF show_question_form
                                     THEN IF FormRenders(session.parsed_questions)
                                          THEN "form" ELSE "form_error"
                                     ELSE IF is_ended(state) THEN "ended"
                                     ELSE "chat"]
    /\ UNCHANGED << engine_vars, session, function_vars >>

\* parsed_questions after a chat message (lines 658-666).
ParsedAfter(st, raw, parsed) ==
    IF /\ st \in { TECH_QUESTIONS, ANSWERING_QUESTIONS }
       /\ parsed = <<>>
       /\ raw # <<>>
    THEN parse_technical_questions(raw)
    ELSE parsed

\* main, lines 635-647: a message typed into the chat input, up to the return
\* of process_message.  The script then stands at st.markdown(response); when
\* process_message raises, the run ends there.
ChatInput ==
    /\ ~page.running
    /\ page.body = "chat"
    /\ session.conversation_manager
    /\ session.greeting_sent
    /\ ~show_question_form
    /\ ~is_ended(state)
    /\ ProcessMessageOn(UserTexts, {Failure}, FewExtractionOutcomes)
    /\ session' = session
    /\ IF last'.outcome = "returned"
       THEN page' = [page EXCEPT !.running = TRUE, !.at = "markdown",
                                 !.event = "message"]
       ELSE page' = [page EXCEPT !.event = "error"]

\* main, lines 648-670: the response is shown, the questions are parsed when
\* they were just generated, and the script asks for a rerun.
ShowResponse ==
    /\ page.running
    /\ page.at = "markdown"
    /\ session' = [session EXCEPT !.parsed_questions =
                       ParsedAfter(state, raw_tech_questions, @)]
    /\ page' = [page EXCEPT !.at = "top", !.event = "shown"]
    /\ UNCHANGED << engine_vars, function_vars >>

\* The run ends inside st.markdown(response) (line 648): an element call hands
\* control to a rerun or stop request that is waiting, and lines 650-670 never
\* run.  The session is as it was; what follows is a run from the top
\* (rerun = TRUE) or the event of a widget of the page.
StopAtResponse ==
    /\ page.running
    /\ page.at = "markdown"
    /\ \E rerun \in BOOLEAN :
         page' = [page EXCEPT !.running = rerun, !.at = "top", !.event = "stopped"]
    /\ UNCHANGED << engine_vars, session, function_vars >>

\* render_question_form, lines 512-541: "Submit All Answers" with what the
\* boxes hold.  Nothing between the call of process_message and st.rerun()
\* renders an element.
SubmitAnswers ==
    /\ ~page.running
    /\ page.body = "form"
    /\ session.conversation_manager
    /\ show_question_form
    /\ \E answers \in AnswerSheets(session.parsed_questions) :
         LET all_answers == AllAnswers(session.parsed_questions, answers)
         IN
         IF HasAnswers(all_answers)
         THEN /\ ProcessMessageOn({AnswersText(all_answers)},
                                  {Failure}, FewExtractionOutcomes)
              /\ session' = [session EXCEPT !.questions_submitted = TRUE]
              /\ page' = [page EXCEPT !.running = (last'.outcome = "returned"),
                                      !.event = "answers"]
         ELSE /\ page' = [page EXCEPT !.event = "warning"]
              /\ UNCHANGED << engine_vars, session, function_vars >>

\* "New Chat" of the sidebar (lines 446-448), shown while the session has an
\* engine: reset_conversation, then a rerun. The discarded engine is left as
\* it was.
NewChat ==
    /\ ~page.running
    /\ session.conversation_manager
    /\ page.resets < MaxResets
    /\ session' = reset_conversation
    /\ page' = [page EXCEPT !.running = TRUE,
                            !.body = "none",
                            !.event = "reset",
                            !.resets = @ + 1]
    /\ UNCHANGED << engine_vars, function_vars >>

InitApp ==
    /\ EngineInit
    /\ session = init_session_state
    /\ page \in { NoPage(key) : key \in EnvKeys }
    /\ arg = <<>>
    /\ result = NoResult

NextApp ==
    \/ RunSetup
    \/ StartScreening
    \/ Greet
    \/ StopAtSpinner
    \/ Rerun
    \/ RenderPage
    \/ ChatInput
    \/ ShowResponse
    \/ StopAtResponse
    \/ SubmitAnswers
    \/ NewChat

SpecApp == InitApp /\ [][NextApp]_vars

\* start_conversation called with each argument it accepts, while the session
\* has no engine; what follows is main as above.
StartCall ==
    /\ ~session.conversation_manager
    /\ \E api_key \in TypedKeys :
         /\ start_conversation(api_key)
         /\ page' = [page EXCEPT !.running = StartReturns(api_key),
                                 !.body = "none",
                                 !.event = "start",
                                 !.key = Or(api_key, page.env_key),
                                 !.construct = Constructed(api_key)]
    /\ UNCHANGED function_vars

NextStart ==
    \/ StartCall
    \/ Greet
    \/ StopAtSpinner
    \/ Rerun
    \/ RenderPage
    \/ ChatInput
    \/ ShowResponse
    \/ StopAtResponse
    \/ SubmitAnswers
    \/ NewChat

SpecStart == InitApp /\ [][NextStart]_vars

\* main under a script that runs on: a run that stands before the greeting of
\* an engine does not stay there; it goes on to line 603 unless it is ended at
\* the spinner.
SpecAppFair == SpecApp /\ WF_vars(Greet)

\* ------------------------------------------------------------------ claims

\* The keys of SENTIMENT_MAP.
SentimentLabels == { "positive", "neutral", "negative", "excited", "nervous", "confident" }

\* The extraction block of the last call's chat reply.
LastBlock == last.chat.text.block

\* The last call was a process_message handled by _handle_info_gathering.
LastGathering == last.op = "process_message" /\ last.path = "info_gathering"

\* The chat call of the last engine call raised in the provider.
LastChatFailed == last.chat.called /\ ~last.chat.ok

\* The block gives the key a value for which `holds` is true.
Gives(b, key, holds(_)) ==
    \E i \in 1..Len(b.extracted) :
        b.extracted[i][1] = key /\ holds(b.extracted[i][2])

\* A block that names all 7 fields with non-null values.
AllFieldsNonNull(b) ==
    /\ b.kind = "mapping"
    /\ \A f \in FieldNames : Gives(b, f, LAMBDA v : v # None)

\* A block that names all 7 fields with values the merge accepts: non-null,
\* non-empty and not the string "null".
AllFieldsGiven(b) ==
    /\ b.kind = "mapping"
    /\ \A f \in FieldNames : Gives(b, f, LAMBDA v : v \notin {None, "", "null"})

\* The text starts with an exit keyword once lower-cased (a text equal to a
\* keyword starts with it).
HasExitPrefix(text) ==
    \E keyword \in EXIT_KEYWORDS :
        /\ Len(Lower(text)) >= Len(keyword)
        /\ \A i \in 1..Len(keyword) : Lower(text)[i] = keyword[i]

\* C1: on a fresh engine, generate_greeting leaves the phase at GatheringInfo and
\* the transcript holding exactly one entry, an assistant entry with the
\* returned greeting.  (A transcript of one entry after generate_greeting means
\* the call started from the fresh engine: every operation appends.)
C1_GreetingFromFresh ==
    (last.op = "generate_greeting" /\ Len(messages) = 1)
        => /\ state = GATHERING_INFO
           /\ messages = << [role |-> "assistant", content |-> last.response] >>

C1_Witness ==
    /\ last.op = "generate_greeting"
    /\ Len(messages) = 1
    /\ greetings = 1
    /\ last.response # <<>>

\* C2: a process_message call whose sanitized text equals or starts with an exit
\* keyword leaves the phase at Ended, whatever the phase was.
C2_ExitEnds ==
    (last.op = "process_message" /\ HasExitPrefix(last.user_message))
        => state = ENDED

\* An exit message after the questions were generated (phase AnsweringQuestions
\* or later).
C2_Witness ==
    /\ last.op = "process_message"
    /\ HasExitPrefix(last.user_message)
    /\ technical_questions_asked
    /\ state = ENDED

\* C3 as stated: once the phase is Ended it stays Ended under every engine
\* operation, generate_greeting included.
C3_EndedTerminal == [][state = ENDED => state' = ENDED]_vars

\* C3 amended: once the phase is Ended it stays Ended under every
\* process_message call.
C3_EndedTerminalForMessages ==
    [][(state = ENDED /\ last'.op = "process_message") => state' = ENDED]_vars

\* A non-exit message was processed on an ended conversation.
C3_Witness ==
    /\ state = ENDED
    /\ last.op = "process_message"
    /\ last.path = "fallback"
    /\ \E i \in 1..Len(messages) : HasExitPrefix(messages[i].content)

\* C4: first-write-wins: a profile field that holds a value keeps that value
\* in every later state.
C4_FirstWriteWins ==
    [][\A f \in FieldNames : candidate[f] # None => candidate'[f] = candidate[f]]_vars

\* An extraction offered an accepted value to a field that holds another one.
C4_Witness ==
    /\ LastGathering
    /\ last.outcome = "returned"
    /\ \E f \in FieldNames :
          /\ candidate[f] # None
          /\ Gives(LastBlock, f, LAMBDA v : Accepted(v) /\ v # candidate[f])

\* C5: in phase GatheringInfo, a process_message call whose reply
\* carries a block with all 7 fields non-null and all_collected true ends with
\* phase AnsweringQuestions, all 7 profile fields set, the questions-generated
\* flag true and a non-empty stored questions text.
C5_AllCollectedTurn ==
    [][(/\ state = GATHERING_INFO
        /\ last'.op = "process_message"
        /\ last'.path = "info_gathering"
        /\ last'.chat.ok
        /\ AllFieldsNonNull(last'.chat.text.block)
        /\ last'.chat.text.block.all_collected = "true")
       => /\ state' = ANSWERING_QUESTIONS
          /\ \A f \in FieldNames : candidate'[f] # None
          /\ technical_questions_asked'
          /\ raw_tech_questions' # <<>>]_vars

\* C5 on the calls that return: when every one of the 7 values is non-null,
\* non-empty and not the string "null", and the questions-generated flag is
\* false before the call, a call that returns ends with phase
\* AnsweringQuestions, all 7 fields set, the flag true, and the stored questions
\* text is what the question-generation call gave: the apology when it failed,
\* else the model's text, non-empty when that text is.
ReturnedAllGivenTurn ==
    [][(/\ state = GATHERING_INFO
        /\ ~technical_questions_asked
        /\ last'.op = "process_message"
        /\ last'.path = "info_gathering"
        /\ last'.outcome = "returned"
        /\ last'.chat.ok
        /\ AllFieldsGiven(last'.chat.text.block)
        /\ last'.chat.text.block.all_collected = "true")
       => /\ state' = ANSWERING_QUESTIONS
          /\ \A f \in FieldNames : candidate'[f] # None
          /\ technical_questions_asked'
          /\ last'.question_call.called
          /\ raw_tech_questions' =
                (IF last'.question_call.ok THEN last'.question_call.text.body
                 ELSE APOLOGY_TEXT)
          /\ (last'.question_call.ok /\ last'.question_call.text.body # <<>>)
                => raw_tech_questions' # <<>>]_vars

\* C6: a process_message call handled in phase GatheringInfo moves the phase out
\* of GatheringInfo if and only if the extraction block (a parsed JSON object
\* with the key "extracted") has all_collected true or the profile is complete
\* after the merge.
C6_LeavesGatheringIff ==
    [][(/\ state = GATHERING_INFO
        /\ last'.op = "process_message"
        /\ last'.path = "info_gathering")
       => ((state' # GATHERING_INFO)
             <=> \/ /\ last'.chat.ok
                    /\ last'.chat.text.block.kind \in
                         {"mapping", "extracted_null", "extracted_string", "extracted_list"}
                    /\ last'.chat.text.block.all_collected = "true"
                 \/ is_complete(candidate'))]_vars

\* C7 as stated: when the model call fails during a non-exit process_message in
\* phase GatheringInfo, the response is the apology, the phase is still
\* GatheringInfo and the profile is unchanged.
C7_FailureKeepsGathering ==
    [][(/\ state = GATHERING_INFO
        /\ last'.op = "process_message"
        /\ last'.path = "info_gathering"
        /\ last'.chat.called /\ ~last'.chat.ok)
       => /\ last'.outcome = "returned"
          /\ last'.response = APOLOGY_TEXT
          /\ state' = GATHERING_INFO
          /\ candidate' = candidate]_vars

\* C7 amended: the same, for a call that starts with an incomplete profile.
C7_FailureKeepsGatheringIncomplete ==
    [][(/\ state = GATHERING_INFO
        /\ ~is_complete(candidate)
        /\ last'.op = "process_message"
        /\ last'.path = "info_gathering"
        /\ last'.chat.called /\ ~last'.chat.ok)
       => /\ last'.outcome = "returned"
          /\ last'.response = APOLOGY_TEXT
          /\ state' = GATHERING_INFO
          /\ candidate' = candidate]_vars

\* The chat call failed in a turn of GatheringInfo with some fields collected.
C7_Witness ==
    /\ LastGathering
    /\ LastChatFailed
    /\ state = GATHERING_INFO
    /\ \E f \in FieldNames : candidate[f] # None
    /\ \E f \in FieldNames : candidate[f] = None

\* C8: an engine operation one of whose model calls (its chat call or the
\* question-generation call) fails leaves the phase, the profile and the
\* questions-generated flag as they were.
C8_FailureKeepsState ==
    [][(\/ last'.chat.called /\ ~last'.chat.ok
        \/ last'.question_call.called /\ ~last'.question_call.ok)
       => /\ state' = state
          /\ candidate' = candidate
          /\ technical_questions_asked' = technical_questions_asked]_vars

\* C9: process_message never aborts: every call returns a (response, tag) pair.
C9_NeverAborts ==
    last.op = "process_message" => last.outcome = "returned"

\* C10 as stated: in phase GatheringInfo, a reply with no JSON block or with a
\* block that does not parse extracts nothing: the profile is unchanged, the
\* phase is still GatheringInfo, no questions are generated and the call returns
\* the reply's text.
C10_NoBlockNoProgress ==
    [][(/\ state = GATHERING_INFO
        /\ last'.op = "process_message"
        /\ last'.path = "info_gathering"
        /\ last'.chat.ok
        /\ last'.chat.text.block.kind \in {"none", "malformed"})
       => /\ candidate' = candidate
          /\ state' = GATHERING_INFO
          /\ ~last'.question_call.called
          /\ UNCHANGED << technical_questions_asked, raw_tech_questions >>
          /\ last'.outcome = "returned"
          /\ last'.response = strip_json_from_response(last'.chat.text)
          /\ messages'[Len(messages')] =
                [role |-> "assistant", content |-> last'.response]]_vars

\* C10 amended: the same, for a call that starts with an incomplete profile.
C10_NoBlockNoProgressIncomplete ==
    [][(/\ state = GATHERING_INFO
        /\ ~is_complete(candidate)
        /\ last'.op = "process_message"
        /\ last'.path = "info_gathering"
        /\ last'.chat.ok
        /\ last'.chat.text.block.kind \in {"none", "malformed"})
       => /\ candidate' = candidate
          /\ state' = GATHERING_INFO
          /\ ~last'.question_call.called
          /\ UNCHANGED << technical_questions_asked, raw_tech_questions >>
          /\ last'.outcome = "returned"
          /\ last'.response = strip_json_from_response(last'.chat.text)
          /\ messages'[Len(messages')] =
                [role |-> "assistant", content |-> last'.response]]_vars

\* A block that does not parse arrived in GatheringInfo with some fields
\* collected.
C10_Witness ==
    /\ LastGathering
    /\ last.chat.ok
    /\ LastBlock.kind = "malformed"
    /\ state = GATHERING_INFO
    /\ \E f \in FieldNames : candidate[f] # None

\* C11: over any sequence of generate_greeting and process_message calls the
\* question-generation call is made at most once, and once
\* technical_questions_asked is true it stays true, no further
\* question-generation call is made and raw_tech_questions never changes.
C11_QuestionsOnce ==
    [][ /\ question_calls' <= 1
        /\ technical_questions_asked =>
              /\ technical_questions_asked'
              /\ question_calls' = question_calls
              /\ ~last'.question_call.called
              /\ raw_tech_questions' = raw_tech_questions ]_vars

\* The info-gathering handler ran again with the questions already asked (after
\* a second greeting) and the profile complete, and generated nothing.
C11_Witness ==
    /\ technical_questions_asked
    /\ question_calls = 1
    /\ greetings = 2
    /\ last.path = "info_gathering"
    /\ last.outcome = "returned"
    /\ ~last.question_call.called
    /\ state = TECH_QUESTIONS

\* C12: the profile is changed only by the info-gathering handler, which runs
\* only for a non-exit message in GATHERING_INFO: generate_greeting, the exit
\* path, the technical-interaction handler, the closing handler and the fallback
\* handler leave every field of the profile unchanged.
C12_ProfileFrame ==
    [][ /\ last'.path # "info_gathering" => candidate' = candidate
        /\ last'.path = "info_gathering" =>
              /\ last'.op = "process_message"
              /\ state = GATHERING_INFO ]_vars

\* A technical-interaction turn on an engine whose profile is filled.
C12_Witness ==
    /\ last.path = "tech_interaction"
    /\ last.outcome = "returned"
    /\ is_complete(candidate)
    /\ state = ANSWERING_QUESTIONS

\* The position of a phase in the order Greeting < GatheringInfo < TechQuestions
\* < AnsweringQuestions < Closing < Ended.
PhaseOrder ==
    << GREETING, GATHERING_INFO, TECH_QUESTIONS, ANSWERING_QUESTIONS, CLOSING, ENDED >>

PhaseRank(st) == CHOOSE i \in 1..Len(PhaseOrder) : PhaseOrder[i] = st

\* C13: on an engine that has been greeted exactly once, no process_message call
\* moves the phase to an earlier phase of the order Greeting < GatheringInfo <
\* TechQuestions < AnsweringQuestions < Closing < Ended.
C13_PhaseForward ==
    [][ (greetings = 1 /\ last'.op = "process_message")
            => PhaseRank(state') >= PhaseRank(state) ]_vars

\* One greeting, then a turn that completed the profile and generated the
\* questions, then an exit message.
C13_Witness ==
    /\ greetings = 1
    /\ technical_questions_asked
    /\ state = ENDED
    /\ last.op = "process_message"
    /\ last.path = "exit"

IsPrefix(s, t) == Len(s) <= Len(t) /\ SubSeq(t, 1, Len(s)) = s

\* C14: the transcript is append-only: the transcript before any operation is a
\* prefix of the transcript after it.
C14_AppendOnly == [][IsPrefix(messages, messages')]_vars

\* A greeting, a full turn and an exit message have each extended the transcript.
C14_Witness ==
    /\ Len(messages) = 4
    /\ messages[1].role = "assistant"
    /\ messages[2].role = "user"
    /\ messages[3].role = "assistant"
    /\ messages[4].role = "user"
    /\ last.path = "exit"

\* C15: every process_message call that does not take the exit path appends
\* exactly two entries to the transcript: the user entry holding the sanitized
\* input, then the assistant entry holding the response of the call.
C15_TwoEntries ==
    [][ (last'.op = "process_message" /\ last'.path # "exit")
            => messages' = messages \o << Message("user", last'.user_message),
                                          Message("assistant", last'.response) >> ]_vars

\* C16: the tag a process_message call returns is never null, and after every
\* call that returns without taking the exit path the cached current_sentiment
\* equals the tag the call returned.
C16_TagIsMood ==
    (last.op = "process_message" /\ last.outcome = "returned") =>
        /\ last.tag # None
        /\ last.path # "exit" => current_sentiment = last.tag

\* A turn whose sentiment reply named a label other than the cached one.
C16_Witness ==
    /\ last.op = "process_message"
    /\ last.outcome = "returned"
    /\ last.path = "tech_interaction"
    /\ last.sentiment_call.called
    /\ last.sentiment_call.ok
    /\ last.tag = "nervous"
    /\ current_sentiment = "nervous"

\* C17: in every reachable state the cached current_sentiment, and every tag a
\* process_message call returned, is one of positive, neutral, negative,
\* excited, nervous, confident, whatever the provider replies to the sentiment
\* call.
C17_MoodInLabels ==
    /\ current_sentiment \in SentimentLabels
    /\ (last.op = "process_message" /\ last.outcome = "returned")
          => last.tag \in SentimentLabels

\* The sentiment call raised, or its reply is not a parseable JSON object.
SentimentUnusable(call) ==
    call.called /\ (~call.ok \/ call.text.block.kind # "sentiment")

\* C18: when the sentiment call fails or its reply is not a parseable JSON
\* object, analyze_sentiment yields neutral with confidence 0.5, and the
\* enclosing process_message call still runs the phase handler and returns its
\* response with the tag neutral.
C18_SentimentFallback ==
    (last.op = "process_message" /\ SentimentUnusable(last.sentiment_call)) =>
        /\ analyze_sentiment(last.sentiment_call) = NeutralResult
        /\ last.outcome = "returned"
        /\ last.chat.called
        /\ last.tag = "neutral"
        /\ messages[Len(messages)] = Message("assistant", last.response)

\* C19: sanitize_input is idempotent: sanitize_input(sanitize_input(x)) equals
\* sanitize_input(x) for every text x, also when the whitespace-collapsed form
\* of x is longer than the length limit.
C19_SanitizeIdempotent == result.done => result.twice = result.once

\* C20: sanitize_input returns at most 2000 characters, and so every user entry
\* of the transcript has at most 2000 characters.
C20_SanitizeBounded ==
    /\ result.done => Len(result.once) <= 2000
    /\ \A i \in 1..Len(messages) :
          messages[i].role = "user" => Len(messages[i].content) <= 2000

\* A text whose collapsed form is longer than the limit was cut to the limit and
\* stored as a user entry.
C20_Witness ==
    /\ result.done
    /\ Len(CollapseWhitespace(Strip(arg))) > 2000
    /\ Len(result.once) = 2000
    /\ Len(messages) >= 1
    /\ messages[1] = Message("user", result.once)

\* C21: check_exit_intent(T, K) is true if and only if some keyword of K is the
\* whole of, or the beginning of, the trimmed and lower-cased T; a keyword that
\* occurs only further inside T does not trigger it.
C21_ExitIntentIff ==
    result.done =>
        LET normalized == Lower(Strip(arg.message))
        IN  result.value <=>
                \E n \in 0..Len(normalized) :
                    SubSeq(normalized, 1, n) \in arg.exit_keywords

\* A text with a capital and a leading space that, once normalized, goes on
\* after the keyword it starts with.
C21_Witness ==
    /\ result.done
    /\ result.value
    /\ arg.message = << " ", "B", "y", "e" >>
    /\ arg.exit_keywords = { <<"e">>, <<"b", "y">> }

\* a / b rounded to the nearest integer, for a >= 0 and b > 0.
RoundDiv(a, b) == (2 * a + b) \div (2 * b)

\* C22: for every number of filled fields from 0 to 7,
\* get_completion_percentage() is 100 * filled / 7 rounded to the nearest
\* integer.
C22_PercentRounded ==
    get_completion_percentage(candidate)
        = RoundDiv(100 * Len(get_filled_fields(candidate)), 7)

\* C23: get_completion_percentage() never decreases over the engine's
\* operations, and in every reachable state it is 100 if and only if
\* is_complete() is true.
C23_PercentMonotone ==
    /\ [](get_completion_percentage(candidate) = 100 <=> is_complete(candidate))
    /\ [][get_completion_percentage(candidate')
              >= get_completion_percentage(candidate)]_vars

\* Six of the seven fields are filled: 85 percent, and not complete.
C23_Witness ==
    /\ get_completion_percentage(candidate) = 85
    /\ ~is_complete(candidate)
    /\ last.path = "info_gathering"
    /\ last.outcome = "returned"

\* C24: for every reply from which extract_json_from_response returns a
\* mapping, strip_json_from_response of that reply contains neither "{" nor "}".
C24_StripLeavesNoBraces ==
    (result.done /\ result.extracted.found) =>
        \A i \in 1..Len(result.stripped) : result.stripped[i] \notin {"{", "}"}

\* The lines of the text given to parse_technical_questions, trimmed.
ArgLines == LET lines == SplitLines(arg) IN [i \in 1..Len(lines) |-> Strip(lines[i])]

IsHeaderLine(i) == ArgLines[i] # <<>> /\ TechMatch(ArgLines[i]).match

\* The line is numbered (N. or N)) or bulleted (- or the bullet character).
IsQuestionLine(i) ==
    ArgLines[i] # <<>> /\ ~IsHeaderLine(i) /\ QuestionMatch(ArgLines[i]).match

\* The text after the marker.
QuestionText(i) == Strip(QuestionMatch(ArgLines[i]).group)

HeaderName(h) == TechName(TechMatch(ArgLines[h]).group)

HeadersBefore(i) == { h \in 1..(i - 1) : IsHeaderLine(h) }

Max(S) == CHOOSE x \in S : \A y \in S : x >= y

\* The most recent header before line i.
Owner(i) == Max(HeadersBefore(i))

\* A numbered or bulleted line after some header, with more than 10 characters
\* after the marker.
KeptAfterHeader(i) ==
    IsQuestionLine(i) /\ HeadersBefore(i) # {} /\ Len(QuestionText(i)) > 10

\* The same, and the most recent header has a name.
KeptUnderName(i) == KeptAfterHeader(i) /\ HeaderName(Owner(i)) # <<>>

RECURSIVE Ascending(_)
Ascending(S) == IF S = {} THEN <<>> ELSE << Min(S) >> \o Ascending(S \ { Min(S) })

\* The headers that own a kept line, in input order.
OwnersOf(Kept(_)) ==
    Ascending({ Owner(i) : i \in { j \in 1..Len(ArgLines) : Kept(j) } })

\* The groups of the kept lines: one per owning header, in input order, with its
\* kept texts in input order.
GroupsOf(Kept(_)) ==
    LET owners == OwnersOf(Kept)
        Questions(h) == Ascending({ i \in 1..Len(ArgLines) : Kept(i) /\ Owner(i) = h })
    IN  [g \in 1..Len(owners) |->
            [technology |-> HeaderName(owners[g]),
             questions |-> [q \in 1..Len(Questions(owners[g])) |->
                               QuestionText(Questions(owners[g])[q])]]]

\* C25 as stated: parse_technical_questions keeps a line as a question of the
\* current technology if and only if the line is numbered or bulleted, a header
\* has been seen before it, and the text after the marker is longer than 10
\* characters; the kept questions are grouped in input order under the most
\* recent header.
C25_KeptIffAfterHeader == result.done => result.value = GroupsOf(KeptAfterHeader)

\* C25, amended: a line is kept if and only if it is numbered or bulleted, the
\* most recent header before it has a non-empty name, and the text after the
\* marker is longer than 10 characters; the kept questions are grouped in input
\* order under that header.
C25_KeptIffUnderName == result.done => result.value = GroupsOf(KeptUnderName)

\* A header, a question of exactly ten characters and one of eleven: one group
\* with the long question alone.
C25_Witness ==
    /\ result.done
    /\ arg = << "#", "#", "#", " ", "P", "y", "\n" >>
             \o << "2", ")", " " >> \o TenText \o << "\n" >>
             \o << "1", ".", " " >> \o LongText
    /\ result.value = << [technology |-> << "P", "y" >>, questions |-> << LongText >>] >>

\* C26: every group of the output has at least one question; a header followed by
\* no valid question before the next header or the end contributes no group,
\* and the groups appear in the order of their headers.
C26_GroupsNonEmptyInOrder ==
    result.done =>
        /\ \A g \in 1..Len(result.value) : Len(result.value[g].questions) >= 1
        /\ Len(result.value) = Len(OwnersOf(KeptUnderName))
        /\ \A g \in 1..Len(result.value) :
              result.value[g].technology = HeaderName(OwnersOf(KeptUnderName)[g])

\* A header without questions, then two headers with one question each: two
\* groups, of the second and the third header in that order.
C26_Witness ==
    /\ result.done
    /\ arg = << "#", "#", "#", " ", "P", "y", "\n" >>
             \o << "*", "*", "G", "o", "*", "*", "\n" >>
             \o << "-", " " >> \o OtherText \o << "\n" >>
             \o << "#", "#", "#", " ", "P", "y", "\n" >>
             \o << "1", ".", " " >> \o LongText
    /\ result.value = << [technology |-> << "G", "o" >>, questions |-> << OtherText >>],
                         [technology |-> << "P", "y" >>, questions |-> << LongText >>] >>

\* C27: a facade cannot be built without a key: whenever start_conversation has
\* last been called with no key, the construction has failed, the session has no
\* engine and the script has returned; and as long as that is so no step calls
\* generate_greeting or process_message or touches an engine.
C27_NoEngineWithoutKey ==
    /\ [](page.construct # "none" /\ page.key = NoKey
            => /\ page.construct = "failed"
               /\ ~session.conversation_manager
               /\ ~page.running)
    /\ [][page'.construct # "none" /\ page'.key = NoKey
            => UNCHANGED engine_vars]_vars

\* A construction without a key has failed after an earlier conversation was
\* reset.
C27_Witness ==
    /\ page.construct = "failed"
    /\ page.event = "start"
    /\ page.resets = 1
    /\ greetings = 1

\* The fields of an engine as ConversationManager.__init__ leaves them.
EngineFresh ==
    /\ state = GREETING
    /\ messages = <<>>
    /\ \A f \in DOMAIN candidate : candidate[f] = None
    /\ Len(CANDIDATE_FIELDS) = 7
    /\ ~technical_questions_asked
    /\ raw_tech_questions = <<>>
    /\ current_sentiment = "neutral"

\* The engine of the session has its greeting: one call, whose reply is the
\* only entry of the transcript.
Greeted ==
    /\ session.greeting_sent
    /\ greetings = 1
    /\ Len(messages) = 1
    /\ messages[1].role = "assistant"

\* C28 as stated: whenever the session gets an engine, after a reset or at
\* first, that engine is fresh (phase Greeting, empty transcript, all 7 profile
\* fields null, no questions generated or stored, mood neutral) and the session
\* holds no greeting mark, parsed questions or submission of the conversation
\* before; and an engine without a greeting leads to its greeting: one call,
\* whose reply is the only entry of the transcript.
C28_FreshAfterReset ==
    /\ [][session'.conversation_manager /\ ~session.conversation_manager
            => /\ EngineFresh'
               /\ greetings' = 0
               /\ ~session'.greeting_sent
               /\ session'.parsed_questions = <<>>
               /\ ~session'.questions_submitted]_vars
    /\ ((session.conversation_manager /\ ~session.greeting_sent)
          ~> (/\ session.greeting_sent
              /\ greetings = 1
              /\ Len(messages) = 1
              /\ messages[1].role = "assistant"))

\* C28, amended: whenever the session gets an engine, after a reset or at
\* first, that engine is fresh and the session holds no greeting mark, parsed
\* questions or submission of the conversation before; the engine stays fresh
\* and without a call until its greeting, which is the next thing done with it;
\* and a run that stands before the greeting leads to the greeting unless it is
\* ended at the spinner.
C28_FreshUntilGreeted ==
    /\ [][session'.conversation_manager /\ ~session.conversation_manager
            => /\ EngineFresh'
               /\ greetings' = 0
               /\ ~session'.greeting_sent
               /\ session'.parsed_questions = <<>>
               /\ ~session'.questions_submitted]_vars
    /\ [](session.conversation_manager /\ ~session.greeting_sent
            => /\ EngineFresh
               /\ greetings = 0
               /\ session.parsed_questions = <<>>
               /\ ~session.questions_submitted)
    /\ [][session.conversation_manager /\ ~session.greeting_sent
            /\ engine_vars' # engine_vars
            => Greeted']_vars
    /\ ((session.conversation_manager /\ ~session.greeting_sent /\ page.running
            /\ page.event # "interrupted")
          ~> (Greeted \/ page.event = "interrupted"))

\* A new engine has just been built after a reset.
C28_Witness ==
    /\ page.resets = 1
    /\ page.event = "start"
    /\ session.conversation_manager
    /\ ~session.greeting_sent
    /\ EngineFresh

\* C29: every process_message call of the orchestration layer, from the chat
\* input or from the submission of the question form, is made on an engine whose
\* phase is not Ended.
C29_NoCallWhenEnded ==
    [][last'.op = "process_message" /\ messages' # messages
         => /\ state # ENDED
            /\ page'.event \in { "message", "error", "answers" }]_vars

\* The conversation has ended with room left in the transcript, and the page
\* shows the closing notice.
C29_Witness ==
    /\ state = ENDED
    /\ session.conversation_manager
    /\ ~page.running
    /\ page.body = "ended"
    /\ Len(messages) < MaxMessages

\* C30 as stated: each engine gets generate_greeting exactly once, before any
\* process_message: an engine is never greeted twice, a transcript that has
\* entries begins with the one greeting, every process_message step is made
\* on a greeted engine, and once the script has come to rest the engine of the
\* session has its greeting.
C30_GreetedOnceFirst ==
    /\ [](/\ greetings <= 1
          /\ (messages # <<>> => greetings = 1 /\ messages[1].role = "assistant")
          /\ (session.conversation_manager /\ ~page.running => greetings = 1))
    /\ [][last'.op = "process_message" /\ messages' # messages
            => greetings = 1 /\ greetings' = 1]_vars

\* C30, amended: each engine gets generate_greeting at most once, and once
\* before any process_message: an engine is never greeted twice, a transcript
\* that has entries begins with the one greeting, every process_message step is
\* made on a greeted engine, the engine of the session has its greeting exactly
\* when the session holds the greeting mark, and the script rests with an
\* engine that has no greeting only after its run was ended at the spinner.
C30_GreetedAtMostOnceFirst ==
    /\ [](/\ greetings <= 1
          /\ (messages # <<>> => greetings = 1 /\ messages[1].role = "assistant")
          /\ (session.conversation_manager
                => (greetings = 1 <=> session.greeting_sent))
          /\ (session.conversation_manager /\ ~page.running /\ greetings # 1
                => page.event = "interrupted"))
    /\ [][last'.op = "process_message" /\ messages' # messages
            => greetings = 1 /\ greetings' = 1]_vars

\* A second engine, built after a reset, has been greeted and has then
\* processed a message.
C30_Witness ==
    /\ page.resets = 1
    /\ session.conversation_manager
    /\ greetings = 1
    /\ last.op = "process_message"
    /\ Len(messages) >= 3

\* No user entry of the transcript was analysed for its mood: each carries exit
\* intent.
NoneAnalysed(msgs) ==
    \A i \in 1..Len(msgs) :
        msgs[i].role = "user" => check_exit_intent(msgs[i].content, EXIT_KEYWORDS)

\* C31: a process_message call that takes the exit path makes no sentiment call
\* and no extraction or question call, leaves the profile, the
\* questions-generated flag and the cached mood as they were, and returns as tag
\* the mood cached before the call, which is neutral when no earlier message was
\* analysed.
C31_ExitShortCircuit ==
    [][last'.op = "process_message" /\ last'.path = "exit" /\ messages' # messages
         => /\ last'.sentiment_call = NotCalled
            /\ last'.question_call = NotCalled
            /\ candidate' = candidate
            /\ technical_questions_asked' = technical_questions_asked
            /\ current_sentiment' = current_sentiment
            /\ last'.tag = current_sentiment
            /\ (NoneAnalysed(messages) => last'.tag = "neutral")]_vars

\* An exit after a message whose mood was not neutral, with a field collected.
C31_Witness ==
    /\ last.op = "process_message"
    /\ last.path = "exit"
    /\ last.tag \notin { "neutral", None }
    /\ last.tag = current_sentiment
    /\ candidate # EmptyCandidate

\* C32: a process_message call that takes the exit path adds exactly one entry
\* to the transcript, the sanitized user message with role user; the response it
\* returns is not added, so the transcript then ends with a user entry.
C32_ExitAddsUserOnly ==
    [][last'.op = "process_message" /\ last'.path = "exit" /\ messages' # messages
         => /\ Len(messages') = Len(messages) + 1
            /\ SubSeq(messages', 1, Len(messages)) = messages
            /\ messages'[Len(messages')].role = "user"
            /\ messages'[Len(messages')].content = last'.user_message
            /\ \E text \in UserTexts : last'.user_message = sanitize_input(text)
            /\ last'.outcome = "returned"]_vars

\* An exit that returned a response of the model, after a greeting and one
\* answered message.
C32_Witness ==
    /\ last.op = "process_message"
    /\ last.path = "exit"
    /\ last.chat.ok
    /\ last.response # <<>>
    /\ Len(messages) = 4
    /\ messages[4].role = "user"
    /\ messages[3].role = "assistant"

\* C33: a process_message call made in phase TechQuestions or
\* AnsweringQuestions leaves the phase as it was, or, when the message carries
\* exit intent, at Ended; the questions-generated flag and the stored raw
\* questions are unchanged.
C33_TechPhasesStay ==
    [][(/\ state \in { TECH_QUESTIONS, ANSWERING_QUESTIONS }
        /\ last'.op = "process_message"
        /\ messages' # messages)
         => /\ state' = IF check_exit_intent(last'.user_message, EXIT_KEYWORDS)
                        THEN ENDED ELSE state
            /\ last'.path = IF check_exit_intent(last'.user_message, EXIT_KEYWORDS)
                            THEN "exit" ELSE "tech_interaction"
            /\ technical_questions_asked' = technical_questions_asked
            /\ raw_tech_questions' = raw_tech_questions]_vars

\* A message without exit intent was answered in phase TechQuestions, with
\* questions stored.
C33_Witness ==
    /\ state = TECH_QUESTIONS
    /\ last.op = "process_message"
    /\ last.path = "tech_interaction"
    /\ technical_questions_asked
    /\ raw_tech_questions # <<>>

\* A message without exit intent was answered in phase AnsweringQuestions.
C33_WitnessAnswering ==
    /\ state = ANSWERING_QUESTIONS
    /\ last.op = "process_message"
    /\ last.path = "tech_interaction"

\* The last three entries of a transcript.
LastThree(msgs) ==
    SubSeq(msgs, IF Len(msgs) > 3 THEN Len(msgs) - 2 ELSE 1, Len(msgs))

\* C34: a process_message call without exit intent made in a phase that has no
\* handler of its own (Greeting, Ended) takes the fallback path, passes the
\* model at most the last 3 entries of the transcript, and leaves phase,
\* profile and questions-generated flag unchanged.
C34_FallbackLastThree ==
    [][(/\ state \in { GREETING, ENDED }
        /\ last'.op = "process_message"
        /\ messages' # messages
        /\ ~check_exit_intent(last'.user_message, EXIT_KEYWORDS))
         => /\ last'.path = "fallback"
            /\ Len(last'.context) <= 3
            /\ last'.context =
                   LastThree(Append(messages, Message("user", last'.user_message)))
            /\ state' = state
            /\ candidate' = candidate
            /\ technical_questions_asked' = technical_questions_asked]_vars

\* C34 with the context the fallback handler does pass: the last 6 entries.
C34_FallbackLastSix ==
    [][(/\ state \in { GREETING, ENDED }
        /\ last'.op = "process_message"
        /\ messages' # messages
        /\ ~check_exit_intent(last'.user_message, EXIT_KEYWORDS))
         => /\ last'.path = "fallback"
            /\ Len(last'.context) <= 6
            /\ last'.context =
                   LastSix(Append(messages, Message("user", last'.user_message)))
            /\ state' = state
            /\ candidate' = candidate
            /\ technical_questions_asked' = technical_questions_asked]_vars

\* The fallback answered a message when the transcript had seven entries, and
\* was passed the last six.
C34_Witness ==
    /\ last.op = "process_message"
    /\ last.path = "fallback"
    /\ Len(messages) = 8
    /\ Len(last.context) = 6

\* C35: while generate_greeting has been called at most once, the phase is never
\* TechQuestions after a call; and a process_message call that leaves
\* GatheringInfo without exit intent has made the question-generation call,
\* stored its text, set the flag and left the phase at AnsweringQuestions.
C35_TechQuestionsTransient ==
    /\ [](greetings <= 1 => state # TECH_QUESTIONS)
    /\ [][(/\ greetings' <= 1
           /\ last'.op = "process_message"
           /\ last'.path = "info_gathering"
           /\ state' # state)
            => /\ state = GATHERING_INFO
               /\ state' = ANSWERING_QUESTIONS
               /\ last'.outcome = "returned"
               /\ last'.question_call.called
               /\ question_calls' = question_calls + 1
               /\ technical_questions_asked'
               /\ raw_tech_questions' = Render(generate_technical_questions(
                      [ok |-> last'.question_call.ok,
                       text |-> last'.question_call.text]))]_vars

\* After one greeting, a turn whose extraction named only some of the fields but
\* marked all collected has generated the questions.
C35_Witness ==
    /\ greetings = 1
    /\ state = ANSWERING_QUESTIONS
    /\ last.op = "process_message"
    /\ last.path = "info_gathering"
    /\ last.question_call.called
    /\ ~is_complete(candidate)

\* A model call of the turn failed.
SomeCallFailed(call) ==
    \/ call.chat.called /\ ~call.chat.ok
    \/ call.sentiment_call.called /\ ~call.sentiment_call.ok
    \/ call.question_call.called /\ ~call.question_call.ok

\* The model calls of a process_message turn are: one chat call on the exit
\* path; otherwise one sentiment call, then one handler call, then one
\* question-generation call exactly in the turn that generates the questions.
TurnCallsBounded ==
    [][(last'.op = "process_message" /\ messages' # messages)
         => IF last'.path = "exit"
            THEN /\ last'.calls = << "chat" >>
                 /\ last'.chat.called
                 /\ ~last'.sentiment_call.called
                 /\ ~last'.question_call.called
            ELSE /\ Len(last'.calls) <= 3
                 /\ SubSeq(last'.calls, 1, 2) = << "sentiment", "chat" >>
                 /\ last'.sentiment_call.called
                 /\ last'.chat.called
                 /\ Len(last'.calls) = 3
                      <=> (~technical_questions_asked /\ technical_questions_asked')
                 /\ Len(last'.calls) = 3
                      <=> (last'.question_call.called /\ last'.calls[3] = "questions")
                 /\ question_calls' - question_calls = Len(last'.calls) - 2]_vars

\* C36: the model calls of a turn are bounded and never repeated (one on the
\* exit path; otherwise sentiment, handler and, in the turn that generates the
\* questions, the question call), and a turn in which a call failed still
\* completes.
C36_CallsBoundedTurnCompletes ==
    /\ TurnCallsBounded
    /\ [](last.op = "process_message" /\ SomeCallFailed(last)
            => last.outcome = "returned")

\* A turn made all three calls, the last of which failed, and returned.
C36_Witness ==
    /\ last.op = "process_message"
    /\ Len(last.calls) = 3
    /\ ~last.question_call.ok
    /\ last.outcome = "returned"

\* C37: the phase is never Closing, so no call takes the closing path, and every
\* step that brings the phase to Ended is a process_message call on the exit
\* path.
C37_ClosingUnreachable ==
    /\ [](state # CLOSING /\ last.path # "closing")
    /\ [][(state' = ENDED /\ state # ENDED)
            => /\ last'.op = "process_message"
               /\ last'.path = "exit"
               /\ check_exit_intent(last'.user_message, EXIT_KEYWORDS)]_vars

\* The engine has ended from phase AnsweringQuestions, after two greetings.
C37_Witness ==
    /\ state = ENDED
    /\ last.path = "exit"
    /\ technical_questions_asked
    /\ greetings = 2

\* C38: while generate_greeting has been called at most once, phase
\* AnsweringQuestions implies that the questions-generated flag is set, and
\* phase Greeting or GatheringInfo implies that the flag is not set and that no
\* raw questions are stored.
C38_FlagMatchesPhase ==
    greetings <= 1
      => /\ (state = ANSWERING_QUESTIONS => technical_questions_asked)
         /\ (state \in { GREETING, GATHERING_INFO }
               => ~technical_questions_asked /\ raw_tech_questions = <<>>)

\* After one greeting, a turn has generated and stored the questions.
C38_Witness ==
    /\ greetings = 1
    /\ state = ANSWERING_QUESTIONS
    /\ technical_questions_asked
    /\ raw_tech_questions # <<>>
    /\ last.op = "process_message"

\* After one greeting and a message, the engine is still gathering.
C38_WitnessGathering ==
    /\ greetings = 1
    /\ state = GATHERING_INFO
    /\ last.op = "process_message"
    /\ last.outcome = "returned"

\* C39: while generate_greeting has been called at most once, phase
\* GatheringInfo implies that at least one field of the profile is null; so a
\* turn that fills the last field does not end in GatheringInfo.
C39_GatheringIncomplete ==
    (greetings <= 1 /\ state = GATHERING_INFO)
        => /\ ~is_complete(candidate)
           /\ \E f \in FieldNames : candidate[f] = None

\* C39 on the calls that return: while generate_greeting has been called at
\* most once, a call that returns does not leave phase GatheringInfo with a
\* complete profile.
ReturnedGatheringIncomplete ==
    (greetings <= 1 /\ state = GATHERING_INFO /\ last.outcome = "returned")
        => ~is_complete(candidate)

====
